---- MODULE Spec2Model ----
(***************************************************************************)
(* Model of the uBlock Unified List Generator (itsrody/uBlockUnified).     *)
(*                                                                         *)
(* A rule is a sequence of one-character strings.  A token that is longer  *)
(* than one character stands for a value no rule text can be: None, a      *)
(* raised exception, or a character outside ASCII.                         *)
(*                                                                         *)
(* The specifications share the variables:                                 *)
(*   SpecOptimizer  - RuleOptimizer.optimize_rules, run twice              *)
(*   SpecClassifier - RuleConverter.classify_rule                          *)
(*   SpecConverter  - UBlockRuleConverter.convert_rule, the wrapper        *)
(*                    RuleConverter.convert_rule and process_rules         *)
(*   SpecGenerate   - ListGenerator.generate with its parallel fetches     *)
(*   SpecFetcher    - SourceFetcher.fetch_source with retries and cache    *)
(*   SpecProcess    - RuleConverter.process_rules on several sources       *)
(*   SpecCache      - fetch_source of several sources over one cache dir   *)
(*   SpecRetry      - a call through ErrorHandler.retry_on_error           *)
(***************************************************************************)
EXTENDS Integers, Sequences, FiniteSets, TLC

VARIABLES
    pc,               \* position of the run
    rules,            \* optimize_rules: the input list
    optimized,        \* optimize_rules: the returned list
    reoptimized,      \* optimize_rules applied to its own output
    optimized_rules,  \* RuleOptimizer.optimized_rules, the set of rules seen
    warning_count,    \* ErrorHandler._warning_count
    rule,             \* classify_rule / convert_rule: the input rule
    source_type,      \* convert_rule: the source dialect name
    rule_type,        \* classify_rule: the returned type id
    converted,        \* convert_rule: the returned rule
    status,           \* convert_rule: the returned status message
    validated_rules,  \* process_rules: rule type id -> list of rules
    sources,          \* generate: config['sources']
    content,          \* generate: the lines each source's URL serves
    future,           \* generate: the state of each submitted fetch
    all_rules,        \* generate: the (rule, priority) pairs collected
    error_count,      \* ErrorHandler._error_count
    output,           \* generate: the rules written to the output file
    written,          \* generate: the text of the output file
    result,           \* generate: the returned value
    settings,         \* fetch_source: config.settings
    use_cache,        \* SourceFetcher.use_cache
    cache,            \* fetch_source: the cache file of the source
    fetch,            \* fetch_source: the attempts made and the sleeps taken
    fetched           \* fetch_source: the returned list

\* the variables of ListGenerator.generate
genvars == <<sources, content, future, all_rules, error_count, output, written,
             result>>

\* the variables of SourceFetcher.fetch_source
fetchvars == <<settings, use_cache, cache, fetch, fetched>>

vars == <<pc, rules, optimized, reoptimized, optimized_rules, warning_count,
          rule, source_type, rule_type, converted, status, validated_rules,
          sources, content, future, all_rules, error_count, output, written, result,
          settings, use_cache, cache, fetch, fetched>>

(***************************************************************************)
(* Bounds of the model.                                                    *)
(***************************************************************************)
MaxBody == 5      \* characters after "||" in a generated domain rule
MaxRules == 3     \* rules in an optimizer input list
MaxFrags == 3     \* fragments in a generated classifier rule
MaxConvFrags == 3 \* fragments in a generated converter rule

\* all sequences over S of length at most n
SeqsUpTo(S, n) == UNION {[1..k -> S] : k \in 0..n}

(***************************************************************************)
(* Values that are not rule texts.                                         *)
(***************************************************************************)
None == <<"<None>">>
RuleError == <<"<RuleError>">>
Raised == <<"<Exception>">>
NonAscii == "U+00E9"

(***************************************************************************)
(* String primitives of Python, on sequences of characters.                *)
(***************************************************************************)
Whitespace == {" ", "\t"}
Lower == {"a","b","c","d","e","f","g","h","i","j","k","l","m",
          "n","o","p","q","r","s","t","u","v","w","x","y","z"}
Digits == {"0","1","2","3","4","5","6","7","8","9"}

Min(S) == CHOOSE x \in S : \A y \in S : x <= y
Max(S) == CHOOSE x \in S : \A y \in S : y <= x

StartsWith(s, p) == Len(s) >= Len(p) /\ SubSeq(s, 1, Len(p)) = p

EndsWith(s, p) == Len(s) >= Len(p) /\ SubSeq(s, Len(s) - Len(p) + 1, Len(s)) = p

\* the substring p occurs in s at index i
OccursAt(s, p, i) ==
    /\ i >= 1
    /\ i + Len(p) - 1 <= Len(s)
    /\ \A k \in 1..Len(p) : s[i + k - 1] = p[k]

\* p in s
Contains(s, p) == \E i \in 1..(Len(s) - Len(p) + 1) : OccursAt(s, p, i)

\* s.find(p) + 1, from index `from`; 0 when p does not occur
Find(s, p, from) ==
    LET hits == {i \in from..(Len(s) - Len(p) + 1) : OccursAt(s, p, i)}
    IN  IF hits = {} THEN 0 ELSE Min(hits)

Drop(s, n) == SubSeq(s, n + 1, Len(s))

\* the occurrences of old are replaced from left to right, without overlap
RECURSIVE ReplaceFrom(_, _, _, _)
ReplaceFrom(s, old, new, i) ==
    LET j == Find(s, old, i)
    IN  IF j = 0 THEN SubSeq(s, i, Len(s))
        ELSE SubSeq(s, i, j - 1) \o new \o ReplaceFrom(s, old, new, j + Len(old))

\* s.replace(old, new) for a non-empty old
Replace(s, old, new) == ReplaceFrom(s, old, new, 1)

\* the indices of s from i on whose character is not in cs
Outside(s, cs, i) == {k \in i..Len(s) : s[k] \notin cs}

RStrip(s) ==
    LET ks == Outside(s, Whitespace, 1)
    IN  IF ks = {} THEN <<>> ELSE SubSeq(s, 1, Max(ks))

LStrip(s) ==
    LET ks == Outside(s, Whitespace, 1)
    IN  IF ks = {} THEN <<>> ELSE SubSeq(s, Min(ks), Len(s))

\* s.strip()
Strip(s) == LStrip(RStrip(s))

\* the end of the maximal run of characters of cs that starts at i (i - 1 when empty)
RunEnd(s, cs, i) ==
    LET ks == Outside(s, cs, i)
    IN  IF i > Len(s) THEN i - 1
        ELSE IF ks = {} THEN Len(s) ELSE Min(ks) - 1

(***************************************************************************)
(* RuleOptimizer (src/src/rule_optimizer.py)                               *)
(***************************************************************************)

\* patterns['comment'].match(rule): ^!.*
IsComment(r) == StartsWith(r, <<"!">>)

\* patterns['empty'].match(rule): ^\s*$
IsEmpty(r) == \A i \in 1..Len(r) : r[i] \in Whitespace

\* patterns['invalid'].search(rule): [^\x00-\x7F]
IsInvalid(r) == \E i \in 1..Len(r) : r[i] = NonAscii

\* re.sub(c+, c, s): every run of the character c becomes one c
RECURSIVE CollapseRuns(_, _, _)
CollapseRuns(s, c, i) ==
    LET j == Find(s, <<c>>, i)
    IN  IF j = 0 THEN SubSeq(s, i, Len(s))
        ELSE SubSeq(s, i, j) \o CollapseRuns(s, c, RunEnd(s, {c}, j) + 1)

\* patterns['duplicate_separator'].sub(',', s): [,\^]{2,} becomes ","
RECURSIVE CollapseSeparators(_, _)
CollapseSeparators(s, i) ==
    LET js == {j \in i..(Len(s) - 1) : s[j] \in {",", "^"} /\ s[j + 1] \in {",", "^"}}
    IN  IF js = {} THEN SubSeq(s, i, Len(s))
        ELSE SubSeq(s, i, Min(js) - 1) \o <<",">>
                 \o CollapseSeparators(s, RunEnd(s, {",", "^"}, Min(js)) + 1)

\* where \|\|([^/]+)\*\. matches at i: the index of the "*" it removes, or 0.
\* The group is greedy, so the "*." taken is the last one of the run of
\* non-slash characters after "||", with at least one character before it.
DomainWildcardAt(s, i) ==
    IF ~OccursAt(s, <<"|", "|">>, i) THEN 0
    ELSE LET slash == Find(s, <<"/">>, i + 2)
             e     == IF slash = 0 THEN Len(s) ELSE slash - 1
             js    == {j \in (i + 3)..(e - 1) : s[j] = "*" /\ s[j + 1] = "."}
         IN  IF js = {} THEN 0 ELSE Max(js)

\* re.sub(r'\|\|([^/]+)\*\.', r'||\1.', rule): the leftmost match from i on
\* loses its "*", and the search goes on after it
RECURSIVE SubDomainWildcard(_, _)
SubDomainWildcard(s, i) ==
    LET starts == {k \in i..Len(s) : DomainWildcardAt(s, k) # 0}
    IN  IF starts = {} THEN SubSeq(s, i, Len(s))
        ELSE LET j == DomainWildcardAt(s, Min(starts))
             IN  SubSeq(s, i, j - 1) \o <<".">> \o SubDomainWildcard(s, j + 2)

\* re.sub(r'\*\.[a-z]', lambda m: m.group()[2:], rule)
RECURSIVE SubLabelWildcard(_, _)
SubLabelWildcard(s, i) ==
    LET js == {j \in i..(Len(s) - 2) :
                  OccursAt(s, <<"*", ".">>, j) /\ s[j + 2] \in Lower}
    IN  IF js = {} THEN SubSeq(s, i, Len(s))
        ELSE SubSeq(s, i, Min(js) - 1) \o <<s[Min(js) + 2]>>
                 \o SubLabelWildcard(s, Min(js) + 3)

_optimize_domain_rule(r) == SubLabelWildcard(SubDomainWildcard(r, 1), 1)

\* re.sub(r'\s*>\s*', '>', selector): whitespace around each ">" goes
RECURSIVE SubChildCombinator(_, _)
SubChildCombinator(s, i) ==
    LET starts == {k \in i..Len(s) :
                      LET w == RunEnd(s, Whitespace, k)
                      IN  w + 1 <= Len(s) /\ s[w + 1] = ">"}
    IN  IF starts = {} THEN SubSeq(s, i, Len(s))
        ELSE LET w == RunEnd(s, Whitespace, Min(starts))
             IN  SubSeq(s, i, Min(starts) - 1) \o <<">">>
                     \o SubChildCombinator(s, RunEnd(s, Whitespace, w + 2) + 1)

\* re.sub(r'\s+', ' ', selector)
RECURSIVE SubWhitespace(_, _)
SubWhitespace(s, i) ==
    LET js == {j \in i..Len(s) : s[j] \in Whitespace}
    IN  IF js = {} THEN SubSeq(s, i, Len(s))
        ELSE SubSeq(s, i, Min(js) - 1) \o <<" ">>
                 \o SubWhitespace(s, RunEnd(s, Whitespace, Min(js)) + 1)

_optimize_element_hiding_rule(r) ==
    LET at       == Find(r, <<"#", "#">>, 1)
        domains  == SubSeq(r, 1, at - 1)
        selector == Drop(r, at + 1)
    IN  domains \o <<"#", "#">>
                \o Strip(SubWhitespace(SubChildCombinator(selector, 1), 1))

\* None, RuleError (raised) or the normalised rule
_optimize_rule(r) ==
    IF IsComment(r) \/ IsEmpty(r) THEN None
    ELSE IF IsInvalid(r) THEN RuleError
    ELSE LET r1 == RStrip(r)
             r2 == CollapseRuns(r1, "^", 1)
             r3 == CollapseRuns(r2, "*", 1)
             r4 == CollapseSeparators(r3, 1)
             r5 == IF StartsWith(r4, <<"|", "|">>) THEN _optimize_domain_rule(r4)
                   ELSE IF Contains(r4, <<"#", "#">>)
                        THEN _optimize_element_hiding_rule(r4)
                        ELSE r4
         IN  IF r5 # <<>> THEN r5 ELSE None

\* an optimize_rules whose try encloses the loop: the first RuleError is
\* counted and ends the loop
RECURSIVE OptimizeLoop_abort(_, _, _)
OptimizeLoop_abort(L, i, acc) ==
    IF i > Len(L) THEN acc
    ELSE LET o == _optimize_rule(L[i])
         IN  IF o = RuleError
             THEN [acc EXCEPT !.warnings = @ + 1]
             ELSE IF o = None \/ o \in acc.seen
             THEN OptimizeLoop_abort(L, i + 1, acc)
             ELSE OptimizeLoop_abort(L, i + 1,
                      [acc EXCEPT !.optimized = Append(@, o), !.seen = @ \cup {o}])

\* the loop of optimize_rules from rule i on; acc = [optimized, seen, warnings]
RECURSIVE OptimizeLoop(_, _, _)
OptimizeLoop(L, i, acc) ==
    IF i > Len(L) THEN acc
    ELSE LET o == _optimize_rule(L[i])
         IN  IF o = RuleError
             THEN OptimizeLoop(L, i + 1, [acc EXCEPT !.warnings = @ + 1])
             ELSE IF o = None \/ o \in acc.seen
             THEN OptimizeLoop(L, i + 1, acc)
             ELSE OptimizeLoop(L, i + 1,
                      [acc EXCEPT !.optimized = Append(@, o), !.seen = @ \cup {o}])

\* an optimize_rules that appends every normalised rule, seen before or not
RECURSIVE OptimizeLoop_unseen(_, _, _)
OptimizeLoop_unseen(L, i, acc) ==
    IF i > Len(L) THEN acc
    ELSE LET o == _optimize_rule(L[i])
         IN  IF o = RuleError
             THEN OptimizeLoop_unseen(L, i + 1, [acc EXCEPT !.warnings = @ + 1])
             ELSE IF o = None
             THEN OptimizeLoop_unseen(L, i + 1, acc)
             ELSE OptimizeLoop_unseen(L, i + 1,
                      [acc EXCEPT !.optimized = Append(@, o), !.seen = @ \cup {o}])

optimize_rules_unseen(L) ==
    OptimizeLoop_unseen(L, 1, [optimized |-> <<>>, seen |-> {}, warnings |-> 0])

optimize_rules(L) ==
    OptimizeLoop(L, 1, [optimized |-> <<>>, seen |-> {}, warnings |-> 0])

(***************************************************************************)
(* Inputs of optimize_rules.                                               *)
(***************************************************************************)

\* domain rules "||" + body, body over the characters of a wildcard host
LongRules ==
    {<<"|", "|">> \o b : b \in SeqsUpTo({"a", "*", "."}, MaxBody) \ {<<>>}}

ShortRules ==
    { <<"|","|","a",".","b","^">>,                               \* ||a.b^
      <<"|","|","a",".","b","^","$","x">>,                       \* ||a.b^$x
      <<"|","|","a",".","b">>,                                   \* ||a.b
      <<"|","|","a",".","b","^","^">>,                           \* ||a.b^^
      <<"@","@","|","|","a",".","b","^">>,                       \* @@||a.b^
      <<"@","@","|","|","c",".","d","^">>,                       \* @@||c.d^
      <<"a",".","b","#","#",".","x"," ",">"," ",".","y">>,       \* a.b##.x > .y
      <<"#","#",".","x"," "," ",".","y"," ">>,                   \* ##.x  .y_
      <<"a",".","b","^",",","^","c">>,                           \* a.b^,^c
      <<"!"," ","c">>,                                           \* ! c
      <<" "," ">>,                                               \* blank
      <<"|","|",NonAscii,".","b","^">>,                          \* ||(e-acute).b^
      <<"!"," ",NonAscii>> }                                     \* ! (e-acute)

\* one generated domain rule, or up to MaxRules of the sample rules
RuleLists == {<<r>> : r \in LongRules} \cup SeqsUpTo(ShortRules, MaxRules)

(***************************************************************************)
(* SpecOptimizer: optimize_rules on an input list, then on its own output. *)
(***************************************************************************)
InitOptimizer ==
    /\ pc = "start"
    /\ rules \in RuleLists
    /\ optimized = <<>>
    /\ reoptimized = <<>>
    /\ optimized_rules = {}
    /\ warning_count = 0
    /\ rule = <<>>
    /\ source_type = ""
    /\ rule_type = 0
    /\ converted = <<>>
    /\ status = ""
    /\ validated_rules = <<>>
    /\ sources = <<>>
    /\ content = <<>>
    /\ future = <<>>
    /\ all_rules = <<>>
    /\ error_count = 0
    /\ output = <<>>
    /\ written = <<>>
    /\ result = FALSE
    /\ settings = <<>>
    /\ use_cache = FALSE
    /\ cache = <<>>
    /\ fetch = <<>>
    /\ fetched = <<>>

OptimizeRules ==
    /\ pc = "start"
    /\ LET res == optimize_rules(rules)
       IN  /\ optimized' = res.optimized
           /\ optimized_rules' = res.seen
           /\ warning_count' = warning_count + res.warnings
    /\ pc' = "optimized"
    /\ UNCHANGED genvars
    /\ UNCHANGED <<rules, reoptimized, rule, source_type, rule_type, converted,
                   status, validated_rules>>
    /\ UNCHANGED fetchvars

OptimizeAgain ==
    /\ pc = "optimized"
    /\ LET res == optimize_rules(optimized)
       IN  /\ reoptimized' = res.optimized
           /\ optimized_rules' = res.seen
           /\ warning_count' = warning_count + res.warnings
    /\ pc' = "reoptimized"
    /\ UNCHANGED genvars
    /\ UNCHANGED <<rules, optimized, rule, source_type, rule_type, converted,
                   status, validated_rules>>
    /\ UNCHANGED fetchvars

NextOptimizer == OptimizeRules \/ OptimizeAgain

SpecOptimizer == InitOptimizer /\ [][NextOptimizer]_vars

(***************************************************************************)
(* Claims about the optimizer.                                             *)
(***************************************************************************)

\* the members of a sequence
Range(s) == {s[i] : i \in 1..Len(s)}

\* the text of a rule before its first "$" (the dedup key of the design)
DedupKey(r) ==
    LET d == Find(r, <<"$">>, 1) IN IF d = 0 THEN r ELSE SubSeq(r, 1, d - 1)

\* a rule with a leading "||" and a trailing "^" removed
ReducedDomain(r) ==
    LET a == IF StartsWith(r, <<"|", "|">>) THEN Drop(r, 2) ELSE r
    IN  IF EndsWith(a, <<"^">>) THEN SubSeq(a, 1, Len(a) - 1) ELSE a

\* a network rule that takes part in redundancy elimination
IsPlainNetworkRule(r) ==
    /\ ~Contains(r, <<"#", "#">>)
    /\ ~Contains(r, <<"#", "@", "#">>)
    /\ ~Contains(ReducedDomain(r), <<"*">>)

\* C1: optimize_rules is idempotent: applied to its own output it returns
\* that output, same rules in the same order.
C1_Idempotence == pc = "reoptimized" => reoptimized = optimized

\* C2: no two rules of the optimizer's output have the same text before
\* their first "$", and the survivor of a dedup key is the first input rule
\* with that key.
C2_DedupInvariant ==
    pc = "optimized" =>
        /\ \A i, j \in 1..Len(optimized) :
               i < j => DedupKey(optimized[i]) # DedupKey(optimized[j])
        /\ \A o \in Range(optimized) :
               \A i \in 1..Len(rules) :
                   (/\ DedupKey(rules[i]) = DedupKey(o)
                    /\ \A k \in 1..(i - 1) : DedupKey(rules[k]) # DedupKey(o))
                   => rules[i] = o

\* C3: every exception rule "@@X" of the optimizer's output has its
\* blocking rule "X" in the output too; an exception without one is dropped.
C3_ConflictInvariant ==
    pc = "optimized" =>
        \A o \in Range(optimized) :
            StartsWith(o, <<"@", "@">>) => Drop(o, 2) \in Range(optimized)

\* C4: among the plain network rules of the optimizer's output no two
\* reduce to the same domain once a leading "||" and a trailing "^" are
\* stripped.
C4_RedundancyInvariant ==
    pc = "optimized" =>
        \A i, j \in 1..Len(optimized) :
            (/\ i < j
             /\ IsPlainNetworkRule(optimized[i])
             /\ IsPlainNetworkRule(optimized[j]))
            => ReducedDomain(optimized[i]) # ReducedDomain(optimized[j])

\* the input rules whose normalised form is o
Producers(o) == {i \in 1..Len(rules) : _optimize_rule(rules[i]) = o}

\* C27: optimize_rules keeps first occurrences in order: its output holds no
\* string twice, every output string is the normalised form of some input
\* rule, the output strings stand in the order of the first input rules that
\* produce them, and none is empty or starts with "!".
C27_FirstOccurrencesInOrder ==
    pc = "optimized"
    => /\ \A k, l \in 1..Len(optimized) : optimized[k] = optimized[l] => k = l
       /\ \A k \in 1..Len(optimized) :
              /\ Producers(optimized[k]) # {}
              /\ optimized[k] # <<>>
              /\ ~IsComment(optimized[k])
              /\ optimized[k] \notin {None, RuleError}
       /\ \A k, l \in 1..Len(optimized) :
              k < l => Min(Producers(optimized[k])) < Min(Producers(optimized[l]))

\* two different input rules have one normalised form, which is in the
\* output, and the output holds a second rule
C27_Witness ==
    /\ pc = "optimized"
    /\ Len(optimized) >= 2
    /\ \E i, j \in 1..Len(rules) :
           /\ i < j
           /\ rules[i] # rules[j]
           /\ _optimize_rule(rules[i]) = _optimize_rule(rules[j])
           /\ _optimize_rule(rules[i]) \in Range(optimized)

(***************************************************************************)
(* RuleConverter.classify_rule (src/rule_converter.py)                     *)
(***************************************************************************)
Unclassifiable == 0   \* classify_rule returns None

HostChars == Lower \cup Digits \cup {".", "-"}

\* re.match(r'^(0\.0\.0\.0|127\.0\.0\.1)\s+[a-z0-9.-]+$', rule)
IsHostsLine(r) ==
    \E ip \in {<<"0", ".", "0", ".", "0", ".", "0">>,
               <<"1", "2", "7", ".", "0", ".", "0", ".", "1">>} :
        /\ StartsWith(r, ip)
        /\ LET w == RunEnd(r, Whitespace, Len(ip) + 1)
           IN  /\ w >= Len(ip) + 1
               /\ w < Len(r)
               /\ \A i \in (w + 1)..Len(r) : r[i] \in HostChars

OPT_DOMAIN == <<"$", "d", "o", "m", "a", "i", "n", "=">>
OPT_REDIRECT == <<"$", "r", "e", "d", "i", "r", "e", "c", "t", "=">>
OPT_REMOVEPARAM == <<"$", "r", "e", "m", "o", "v", "e", "p", "a", "r", "a", "m", "=">>
HAS_EXTENDED_CSS(r) ==
    \/ Contains(r, <<":", "h", "a", "s", "(">>)
    \/ Contains(r, <<":", "n", "o", "t", "(">>)
    \/ Contains(r, <<":", "i", "s", "(">>)

\* the chain of tests of classify_rule, in the order of the code
classify_rule(r) ==
    IF StartsWith(r, <<"|", "|">>) /\ Contains(r, <<"^">>)
       /\ ~StartsWith(r, <<"@", "@">>) THEN 1
    ELSE IF ~Contains(r, <<"#", "#">>) /\ Contains(r, OPT_DOMAIN) THEN 2
    ELSE IF /\ Contains(r, <<"#", "#">>)
            /\ ~StartsWith(r, <<"@", "@">>)
            /\ ~Contains(r, <<"#", "@", "#">>)
            /\ ~Contains(r, <<"#", "?", "#">>) THEN 3
    ELSE IF StartsWith(r, <<"@", "@">>) THEN 4
    ELSE IF StartsWith(r, <<"/">>) /\ EndsWith(r, <<"/">>) THEN 5
    ELSE IF Contains(r, OPT_REDIRECT) THEN 15
    ELSE IF Contains(r, <<"#", "#", "+", "j", "s">>) THEN 7
    ELSE IF Contains(r, <<"#", "#", "^">>) THEN 8
    ELSE IF IsHostsLine(r) THEN 9
    ELSE IF Contains(r, <<"#", "#">>) /\ HAS_EXTENDED_CSS(r) THEN 11
    ELSE IF /\ Contains(r, <<"$">>)
            /\ ~Contains(r, OPT_REDIRECT)
            /\ ~Contains(r, OPT_DOMAIN)
            /\ ~Contains(r, OPT_REMOVEPARAM) THEN 12
    ELSE IF Contains(r, OPT_REMOVEPARAM) THEN 14
    ELSE IF r # <<>> /\ ~StartsWith(r, <<"!">>) THEN 1
    ELSE Unclassifiable

(***************************************************************************)
(* Inputs of classify_rule: up to MaxFrags pieces of filter syntax.        *)
(***************************************************************************)
ClassFrags ==
    { <<"@", "@">>,                                                \* @@
      <<"|", "|", "a", ".", "b", "^">>,                            \* ||a.b^
      <<"|", "|", "a", ".", "b">>,                                 \* ||a.b
      <<"a", ".", "b">>,                                           \* a.b
      <<"$", "d", "o", "m", "a", "i", "n", "=", "c">>,             \* $domain=c
      <<"$", "r", "e", "d", "i", "r", "e", "c", "t", "=", "r">>,   \* $redirect=r
      <<"$", "r", "e", "m", "o", "v", "e", "p", "a", "r", "a", "m", "=", "p">>,
      <<"$", "x">>,                                                \* $x
      <<"#", "#", ".", "x">>,                                      \* ##.x
      <<":", "h", "a", "s", "(", ".", "y", ")">>,                  \* :has(.y)
      <<":", "n", "o", "t", "(", ".", "y", ")">>,                  \* :not(.y)
      <<":", "i", "s", "(", ".", "y", ")">>,                       \* :is(.y)
      <<"#", "#", "+", "j", "s", "(", "s", ")">>,                  \* ##+js(s)
      <<"#", "#", "^", "s">>,                                      \* ##^s
      <<"#", "@", "#", ".", "x">>,                                 \* #@#.x
      <<"#", "?", "#", ".", "x">>,                                 \* #?#.x
      <<"!">>,                                                     \* !
      <<"/">>,                                                     \* /
      <<"1", "2", "7", ".", "0", ".", "0", ".", "1", " ">>,        \* 127.0.0.1_
      <<"0", ".", "0", ".", "0", ".", "0", "\t">> }                \* 0.0.0.0<tab>

\* the concatenation of a sequence of sequences
RECURSIVE Flatten(_)
Flatten(ss) == IF ss = <<>> THEN <<>> ELSE Head(ss) \o Flatten(Tail(ss))

ClassRules == {Flatten(fs) : fs \in SeqsUpTo(ClassFrags, MaxFrags)}

(***************************************************************************)
(* SpecClassifier: classify_rule on an input rule.                         *)
(***************************************************************************)
InitClassifier ==
    /\ pc = "start"
    /\ rule \in ClassRules
    /\ rule_type = Unclassifiable
    /\ rules = <<>>
    /\ optimized = <<>>
    /\ reoptimized = <<>>
    /\ optimized_rules = {}
    /\ warning_count = 0
    /\ source_type = ""
    /\ converted = <<>>
    /\ status = ""
    /\ validated_rules = <<>>
    /\ sources = <<>>
    /\ content = <<>>
    /\ future = <<>>
    /\ all_rules = <<>>
    /\ error_count = 0
    /\ output = <<>>
    /\ written = <<>>
    /\ result = FALSE
    /\ settings = <<>>
    /\ use_cache = FALSE
    /\ cache = <<>>
    /\ fetch = <<>>
    /\ fetched = <<>>

ClassifyRule ==
    /\ pc = "start"
    /\ rule_type' = classify_rule(rule)
    /\ pc' = "classified"
    /\ UNCHANGED genvars
    /\ UNCHANGED <<rules, optimized, reoptimized, optimized_rules, warning_count,
                   rule, source_type, converted, status, validated_rules>>
    /\ UNCHANGED fetchvars

NextClassifier == ClassifyRule

SpecClassifier == InitClassifier /\ [][NextClassifier]_vars

(***************************************************************************)
(* Claims about the classifier.                                            *)
(***************************************************************************)
RuleTypeIds == {1, 2, 3, 4, 5, 7, 8, 9, 11, 12, 14, 15}

IsException(r) == StartsWith(r, <<"@", "@">>)

\* C5: every rule that starts with "@@" classifies as Exception (type 4),
\* whatever options or "##" it also contains.
C5_ExceptionPrecedence ==
    (pc = "classified" /\ IsException(rule)) => rule_type = 4

\* C6: a non-exception rule containing "##" is ExtendedCss (11) when it
\* contains ":has(", ":not(" or ":is(", else ScriptletInject (7) when it
\* contains "##+js", else HtmlFilter (8) when it contains "##^", and plain
\* ElementHide (3) only otherwise.
C6_ElementHideRefinement ==
    (/\ pc = "classified"
     /\ ~IsException(rule)
     /\ ~StartsWith(rule, <<"!">>)
     /\ ~Contains(rule, <<"#", "@", "#">>)
     /\ ~Contains(rule, <<"#", "?", "#">>)
     /\ Contains(rule, <<"#", "#">>))
    => rule_type = (IF HAS_EXTENDED_CSS(rule) THEN 11
                    ELSE IF Contains(rule, <<"#", "#", "+", "j", "s">>) THEN 7
                    ELSE IF Contains(rule, <<"#", "#", "^">>) THEN 8
                    ELSE 3)

\* C7: a non-exception, non-hosts rule without "##" is Redirect (15) when it
\* contains "$redirect=", else ParamRemoval (14) when it contains
\* "$removeparam=", else DomainScoped (2) when it contains "$domain=", else
\* NetworkOption (12) when it contains any other "$"; also when the rule
\* starts with "||" and contains "^".
C7_OptionPrecedence ==
    (/\ pc = "classified"
     /\ ~IsException(rule)
     /\ ~StartsWith(rule, <<"!">>)
     /\ ~IsHostsLine(rule)
     /\ ~(StartsWith(rule, <<"/">>) /\ EndsWith(rule, <<"/">>))
     /\ ~Contains(rule, <<"#", "#">>)
     /\ Contains(rule, <<"$">>))
    => rule_type = (IF Contains(rule, OPT_REDIRECT) THEN 15
                    ELSE IF Contains(rule, OPT_REMOVEPARAM) THEN 14
                    ELSE IF Contains(rule, OPT_DOMAIN) THEN 2
                    ELSE 12)

\* C8: classify returns Unclassifiable for the empty rule and for every rule
\* whose first character is "!"; every other rule gets exactly one type.
C8_CommentsRejected ==
    pc = "classified" =>
        IF rule = <<>> \/ StartsWith(rule, <<"!">>)
        THEN rule_type = Unclassifiable
        ELSE rule_type \in RuleTypeIds

(***************************************************************************)
(* UBlockRuleConverter (src/src/database.py)                               *)
(***************************************************************************)

\* adblocker_sources: the dialect names convert_rule finds
Sources == {"AdBlock Plus", "AdGuard", "Ghostery", "ClearURLs", "Privacy Badger",
            "Pi-hole", "uBlock Origin", "Hosts File"}

\* rule_patterns joined with conversion_rules on the pattern id, in id order.
\* The patterns of "uBlock Origin" have no conversion rule, so the join
\* leaves that source without rows.
ConversionTable == <<
    [source |-> "AdBlock Plus", conversion_function |-> "",
     pattern |-> <<"|", "|", "e", "x", "a", "m", "p", "l", "e", ".", "c", "o", "m", "^">>,
     ublock_pattern |-> <<"|", "|", "e", "x", "a", "m", "p", "l", "e", ".", "c", "o", "m",
             "^">>],
    [source |-> "AdBlock Plus", conversion_function |-> "",
     pattern |-> <<"#", "#", ".", "a", "d", "-", "c", "l", "a", "s", "s">>,
     ublock_pattern |-> <<"#", "#", ".", "a", "d", "-", "c", "l", "a", "s", "s">>],
    [source |-> "AdBlock Plus", conversion_function |-> "",
     pattern |-> <<"e", "x", "a", "m", "p", "l", "e", ".", "c", "o", "m", "#", "#", ".",
             "a", "d", "-", "c", "l", "a", "s", "s">>,
     ublock_pattern |-> <<"e", "x", "a", "m", "p", "l", "e", ".", "c", "o", "m", "#", "#",
             ".", "a", "d", "-", "c", "l", "a", "s", "s">>],
    [source |-> "AdBlock Plus", conversion_function |-> "",
     pattern |-> <<"@", "@", "|", "|", "e", "x", "a", "m", "p", "l", "e", ".", "c", "o",
             "m", "^">>,
     ublock_pattern |-> <<"@", "@", "|", "|", "e", "x", "a", "m", "p", "l", "e", ".", "c",
             "o", "m", "^">>],
    [source |-> "AdBlock Plus", conversion_function |-> "",
     pattern |-> <<"/", "a", "d", "s", "/", "[", "0", "-", "9", "]", "{", "3", "}", "x",
             "[", "0", "-", "9", "]", "{", "3", "}", "/">>,
     ublock_pattern |-> <<"/", "a", "d", "s", "/", "[", "0", "-", "9", "]", "{", "3", "}",
             "x", "[", "0", "-", "9", "]", "{", "3", "}", "/">>],
    [source |-> "AdBlock Plus", conversion_function |-> "",
     pattern |-> <<"|", "|", "e", "x", "a", "m", "p", "l", "e", ".", "c", "o", "m", "^",
             "$", "t", "h", "i", "r", "d", "-", "p", "a", "r", "t", "y">>,
     ublock_pattern |-> <<"|", "|", "e", "x", "a", "m", "p", "l", "e", ".", "c", "o", "m",
             "^", "$", "t", "h", "i", "r", "d", "-", "p", "a", "r", "t", "y">>],
    [source |-> "AdGuard", conversion_function |-> "convert_adguard_css_to_ublock",
     pattern |-> <<"e", "x", "a", "m", "p", "l", "e", ".", "c", "o", "m", "#", "$", "#",
             ".", "a", "d", "-", "c", "l", "a", "s", "s", " ", "{", " ", "d", "i", "s",
             "p", "l", "a", "y", ":", " ", "n", "o", "n", "e", " ", "!", "i", "m", "p",
             "o", "r", "t", "a", "n", "t", ";", " ", "}">>,
     ublock_pattern |-> <<"e", "x", "a", "m", "p", "l", "e", ".", "c", "o", "m", "#", "#",
             ".", "a", "d", "-", "c", "l", "a", "s", "s">>],
    [source |-> "AdGuard", conversion_function |-> "convert_adguard_scriptlet_to_ublock",
     pattern |-> <<"e", "x", "a", "m", "p", "l", "e", ".", "c", "o", "m", "#", "%", "#",
             "/", "/", "s", "c", "r", "i", "p", "t", "l", "e", "t", "(", "\"", "a", "b",
             "o", "r", "t", "-", "o", "n", "-", "p", "r", "o", "p", "e", "r", "t", "y",
             "-", "r", "e", "a", "d", "\"", ",", " ", "\"", "a", "d", "B", "l", "o", "c",
             "k", "D", "e", "t", "e", "c", "t", "e", "d", "\"", ")">>,
     ublock_pattern |-> <<"e", "x", "a", "m", "p", "l", "e", ".", "c", "o", "m", "#", "#",
             "+", "j", "s", "(", "a", "b", "o", "r", "t", "-", "o", "n", "-", "p", "r",
             "o", "p", "e", "r", "t", "y", "-", "r", "e", "a", "d", ",", " ", "a", "d",
             "B", "l", "o", "c", "k", "D", "e", "t", "e", "c", "t", "e", "d", ")">>],
    [source |-> "AdGuard", conversion_function |-> "",
     pattern |-> <<"e", "x", "a", "m", "p", "l", "e", ".", "c", "o", "m", "#", "#", ".",
             "a", "d", ":", "h", "a", "s", "(", ".", "b", "a", "n", "n", "e", "r", ")">>,
     ublock_pattern |-> <<"e", "x", "a", "m", "p", "l", "e", ".", "c", "o", "m", "#", "#",
             ".", "a", "d", ":", "h", "a", "s", "(", ".", "b", "a", "n", "n", "e", "r",
             ")">>],
    [source |-> "AdGuard", conversion_function |-> "",
     pattern |-> <<"|", "|", "e", "x", "a", "m", "p", "l", "e", ".", "c", "o", "m", "^",
             "$", "r", "e", "m", "o", "v", "e", "p", "a", "r", "a", "m", "=", "u", "t",
             "m", "_", "s", "o", "u", "r", "c", "e">>,
     ublock_pattern |-> <<"|", "|", "e", "x", "a", "m", "p", "l", "e", ".", "c", "o", "m",
             "^", "$", "r", "e", "m", "o", "v", "e", "p", "a", "r", "a", "m", "=", "u",
             "t", "m", "_", "s", "o", "u", "r", "c", "e">>],
    [source |-> "AdGuard", conversion_function |-> "convert_adguard_redirect_to_ublock",
     pattern |-> <<"|", "|", "a", "d", "s", ".", "e", "x", "a", "m", "p", "l", "e", ".",
             "c", "o", "m", "^", "$", "r", "e", "d", "i", "r", "e", "c", "t", "=", "n",
             "o", "o", "p", "t", "e", "x", "t">>,
     ublock_pattern |-> <<"|", "|", "a", "d", "s", ".", "e", "x", "a", "m", "p", "l", "e",
             ".", "c", "o", "m", "^", "$", "r", "e", "d", "i", "r", "e", "c", "t", "=",
             "n", "o", "o", "p", "t", "e", "x", "t">>],
    [source |-> "Ghostery", conversion_function |-> "convert_ghostery_to_ublock",
     pattern |-> <<"e", "x", "a", "m", "p", "l", "e", ".", "c", "o", "m", "/", "t", "r",
             "a", "c", "k", "e", "r", ".", "j", "s">>,
     ublock_pattern |-> <<"|", "|", "e", "x", "a", "m", "p", "l", "e", ".", "c", "o", "m",
             "/", "t", "r", "a", "c", "k", "e", "r", ".", "j", "s", "^">>],
    [source |-> "Ghostery", conversion_function |-> "convert_ghostery_wildcard_to_ublock",
     pattern |-> <<"*", "e", "x", "a", "m", "p", "l", "e", ".", "c", "o", "m", "*">>,
     ublock_pattern |-> <<"|", "|", "e", "x", "a", "m", "p", "l", "e", ".", "c", "o", "m",
             "^">>],
    [source |-> "ClearURLs", conversion_function |-> "convert_clearurls_to_ublock_removeparam",
     pattern |-> <<"e", "x", "a", "m", "p", "l", "e", ".", "c", "o", "m", "/", "?", "u",
             "t", "m", "_", "*">>,
     ublock_pattern |-> <<"|", "|", "e", "x", "a", "m", "p", "l", "e", ".", "c", "o", "m",
             "^", "$", "r", "e", "m", "o", "v", "e", "p", "a", "r", "a", "m", "=", "/",
             "u", "t", "m", "_", ".", "*", "/", "i">>],
    [source |-> "ClearURLs", conversion_function |-> "convert_clearurls_param_to_ublock",
     pattern |-> <<"{", "u", "t", "m", "_", "s", "o", "u", "r", "c", "e", "}">>,
     ublock_pattern |-> <<"|", "|", "*", "$", "r", "e", "m", "o", "v", "e", "p", "a", "r",
             "a", "m", "=", "u", "t", "m", "_", "s", "o", "u", "r", "c", "e">>],
    [source |-> "Privacy Badger", conversion_function |-> "privacy_badger_domain_to_ublock",
     pattern |-> <<"e", "x", "a", "m", "p", "l", "e", ".", "c", "o", "m", "/", "*">>,
     ublock_pattern |-> <<"|", "|", "e", "x", "a", "m", "p", "l", "e", ".", "c", "o", "m",
             "^", "$", "a", "l", "l">>],
    [source |-> "Pi-hole", conversion_function |-> "convert_pihole_to_ublock",
     pattern |-> <<"a", "d", "s", ".", "e", "x", "a", "m", "p", "l", "e", ".", "c", "o", "m">>,
     ublock_pattern |-> <<"|", "|", "a", "d", "s", ".", "e", "x", "a", "m", "p", "l", "e",
             ".", "c", "o", "m", "^">>],
    [source |-> "Pi-hole", conversion_function |-> "convert_hosts_to_ublock",
     pattern |-> <<"0", ".", "0", ".", "0", ".", "0", " ", "a", "d", "s", ".", "e", "x",
             "a", "m", "p", "l", "e", ".", "c", "o", "m">>,
     ublock_pattern |-> <<"|", "|", "a", "d", "s", ".", "e", "x", "a", "m", "p", "l", "e",
             ".", "c", "o", "m", "^">>],
    [source |-> "Hosts File", conversion_function |-> "convert_hosts_to_ublock",
     pattern |-> <<"1", "2", "7", ".", "0", ".", "0", ".", "1", " ", "a", "d", "s", ".",
             "e", "x", "a", "m", "p", "l", "e", ".", "c", "o", "m">>,
     ublock_pattern |-> <<"|", "|", "a", "d", "s", ".", "e", "x", "a", "m", "p", "l", "e",
             ".", "c", "o", "m", "^">>] >>

\* the matcher without the closing "$": a rule that only starts like the
\* pattern matches too
RECURSIVE MatchFrom_unanchored(_, _, _, _)
MatchFrom_unanchored(pattern, r, i, j) ==
    LET star == Find(pattern, <<"*">>, i)
    IN  IF star = 0
        THEN OccursAt(r, SubSeq(pattern, i, Len(pattern)), j)
        ELSE /\ OccursAt(r, SubSeq(pattern, i, star - 1), j)
             /\ \E k \in (j + star - i)..(Len(r) + 1) :
                    MatchFrom_unanchored(pattern, r, star + 1, k)

\* re.match(_pattern_to_regex(pattern), rule) from index i of the pattern and
\* index j of the rule: "*" is ".*", every other character is itself (the
\* regex metacharacters are escaped), and the match is anchored at both
\* ends.  A rule is a line of splitlines() (source_fetcher.py:148,
\* list_generator.py:79), so it holds no line break, the one character that
\* "." and "$" treat specially.
RECURSIVE MatchFrom(_, _, _, _)
MatchFrom(pattern, r, i, j) ==
    LET star == Find(pattern, <<"*">>, i)
    IN  IF star = 0
        THEN SubSeq(pattern, i, Len(pattern)) = SubSeq(r, j, Len(r))
        ELSE /\ OccursAt(r, SubSeq(pattern, i, star - 1), j)
             /\ \E k \in (j + star - i)..(Len(r) + 1) :
                    MatchFrom(pattern, r, star + 1, k)

PatternMatches(pattern, r) == MatchFrom(pattern, r, 1, 1)

CSS_SUFFIX == <<" ", "{", " ", "d", "i", "s", "p", "l", "a", "y", ":", " ", "n", "o", "n",
        "e", " ", "!", "i", "m", "p", "o", "r", "t", "a", "n", "t", ";", " ", "}">>

\* where r'#\$#(.*) \{ display: none !important; \}' matches at i: the index
\* of the last suffix after "#$#" (the group is greedy), or 0
CssHidingAt(s, i) ==
    IF ~OccursAt(s, <<"#", "$", "#">>, i) THEN 0
    ELSE LET js == {j \in (i + 3)..Len(s) : OccursAt(s, CSS_SUFFIX, j)}
         IN  IF js = {} THEN 0 ELSE Max(js)

\* re.sub(r'#\$#(.*) \{ display: none !important; \}', r'##\1', rule)
RECURSIVE SubCssHiding(_, _)
SubCssHiding(s, i) ==
    LET starts == {k \in i..Len(s) : CssHidingAt(s, k) # 0}
    IN  IF starts = {} THEN SubSeq(s, i, Len(s))
        ELSE LET a == Min(starts)
                 j == CssHidingAt(s, a)
             IN  SubSeq(s, i, a - 1) \o <<"#", "#">> \o SubSeq(s, a + 3, j - 1)
                     \o SubCssHiding(s, j + Len(CSS_SUFFIX))

SCRIPTLET_OPEN == <<"#", "%", "#", "/", "/", "s", "c", "r", "i", "p", "t", "l", "e", "t",
        "(", "\"">>
SCRIPTLET_SEP == <<"\"", ",", " ", "\"">>
SCRIPTLET_CLOSE == <<"\"", ")">>

\* re.search(r'#%#//scriptlet\("([^"]+)", "([^"]+)"\)', rule) tried at i:
\* [found, name, arg]
ScriptletAt(s, i) ==
    LET n1 == i + Len(SCRIPTLET_OPEN)
        q1 == Find(s, <<"\"">>, n1)
        a1 == q1 + Len(SCRIPTLET_SEP)
        q2 == Find(s, <<"\"">>, a1)
    IN  IF /\ OccursAt(s, SCRIPTLET_OPEN, i)
           /\ q1 > n1
           /\ OccursAt(s, SCRIPTLET_SEP, q1)
           /\ q2 > a1
           /\ OccursAt(s, SCRIPTLET_CLOSE, q2)
        THEN [found |-> TRUE, name |-> SubSeq(s, n1, q1 - 1),
              arg |-> SubSeq(s, a1, q2 - 1)]
        ELSE [found |-> FALSE, name |-> <<>>, arg |-> <<>>]

\* scriptlet_map.get(scriptlet_name, scriptlet_name)
scriptlet_map(name) ==
    IF name = <<"a", "b", "o", "r", "t", "-", "o", "n", "-", "p", "r", "o", "p", "e", "r",
            "t", "y", "-", "r", "e", "a", "d">> THEN <<"a", "o", "p", "r">>
    ELSE IF name = <<"a", "b", "o", "r", "t", "-", "o", "n", "-", "p", "r", "o", "p", "e",
            "r", "t", "y", "-", "w", "r", "i", "t", "e">> THEN <<"a", "o", "p", "w">>
    ELSE IF name = <<"a", "b", "o", "r", "t", "-", "c", "u", "r", "r", "e", "n", "t", "-",
            "i", "n", "l", "i", "n", "e", "-", "s", "c", "r", "i", "p", "t">> THEN <<"a",
            "c", "i", "s">>
    ELSE IF name = <<"s", "e", "t", "-", "c", "o", "n", "s", "t", "a", "n",
            "t">> THEN <<"s", "e", "t">>
    ELSE IF name = <<"j", "s", "o", "n", "-", "p", "r", "u", "n", "e">> THEN <<"j", "s",
            "o", "n", "-", "p", "r", "u", "n", "e">>
    ELSE name

convert_adguard_scriptlet_to_ublock(r) ==
    LET starts == {i \in 1..Len(r) : ScriptletAt(r, i).found}
    IN  IF starts = {} THEN r
        ELSE LET i      == Min(starts)
                 m      == ScriptletAt(r, i)
                 hash   == Find(r, <<"#">>, 1)
                 domain == SubSeq(r, 1, hash - 1)
             IN  domain \o <<"#", "#", "+", "j", "s",
                     "(">> \o scriptlet_map(m.name) \o <<",", " ">> \o m.arg \o <<")">>

\* resource_map, tried in its order; the first name found in the rule is
\* replaced everywhere
convert_adguard_redirect_to_ublock(r) ==
    IF Contains(r, <<"n", "o", "o", "p", "t", "e", "x", "t">>) THEN Replace(r, <<"n", "o",
            "o", "p", "t", "e", "x", "t">>, <<"1", "x", "1", ".", "g", "i", "f">>)
    ELSE IF Contains(r, <<"n", "o", "o", "p", "j", "s">>) THEN Replace(r, <<"n", "o", "o",
            "p", "j", "s">>, <<"n", "o", "o", "p", ".", "j", "s">>)
    ELSE IF Contains(r, <<"n", "o", "o", "p", "f", "r", "a", "m",
            "e">>) THEN Replace(r, <<"n", "o", "o", "p", "f", "r", "a", "m", "e">>, <<"e",
            "m", "p", "t", "y", ".", "h", "t", "m", "l">>)
    ELSE r

convert_ghostery_to_ublock(r) ==
    IF ~StartsWith(r, <<"|", "|">>) THEN <<"|", "|">> \o r \o <<"^">> ELSE r

\* the wildcard transform answering with the table's target pattern whatever
\* the rule holds
convert_ghostery_wildcard_always(r) == <<"|", "|", "e", "x", "a", "m", "p", "l", "e", ".",
        "c", "o", "m", "^">>

convert_ghostery_wildcard_to_ublock(r) ==
    Replace(r, <<"*", "e", "x", "a", "m", "p", "l", "e", ".", "c", "o", "m", "*">>, <<"|",
            "|", "e", "x", "a", "m", "p", "l", "e", ".", "c", "o", "m", "^">>)

\* rule.split('/?')[0] and [1]; IndexError when the rule has no "/?"
convert_clearurls_to_ublock_removeparam(r) ==
    LET a == Find(r, <<"/", "?">>, 1)
    IN  IF a = 0 THEN Raised
        ELSE LET b     == Find(r, <<"/", "?">>, a + 2)
                 e     == IF b = 0 THEN Len(r) ELSE b - 1
                 param == Replace(SubSeq(r, a + 2, e), <<"*">>, <<>>)
             IN  SubSeq(r, 1, a - 1) \o <<"$", "r", "e", "m", "o", "v", "e", "p", "a", "r",
                     "a", "m", "=", "/">> \o param \o <<".", "*", "/", "i">>

\* re.sub(r'^(0\.0\.0\.0|127\.0\.0\.1)\s+', '', rule).strip(), wrapped
convert_hosts_to_ublock(r) ==
    LET ips == {ip \in {<<"0", ".", "0", ".", "0", ".", "0">>, <<"1", "2", "7", ".", "0",
            ".", "0", ".", "1">>} :
                   /\ StartsWith(r, ip)
                   /\ RunEnd(r, Whitespace, Len(ip) + 1) >= Len(ip) + 1}
        rest == IF ips = {} THEN r
                ELSE LET ip == CHOOSE ip \in ips : TRUE
                     IN  Drop(r, RunEnd(r, Whitespace, Len(ip) + 1))
    IN  <<"|", "|">> \o Strip(rest) \o <<"^">>

\* the default branch: re.match(r'^([^#^$]*)', rule) and
\* ublock_pattern.replace('example.com', domain)
convert_default(r, ublock_pattern) ==
    LET stops  == {i \in 1..Len(r) : r[i] \in {"#", "^", "$"}}
        e      == IF stops = {} THEN Len(r)
                  ELSE Min(stops) - 1
        domain == SubSeq(r, 1, e)
    IN  Replace(ublock_pattern, <<"e", "x", "a", "m", "p", "l", "e", ".", "c", "o",
            "m">>, domain)

_apply_conversion(r, conversion_function, pattern, ublock_pattern) ==
    IF conversion_function = "convert_adguard_css_to_ublock"
        THEN SubCssHiding(r, 1)
    ELSE IF conversion_function = "convert_adguard_scriptlet_to_ublock"
        THEN convert_adguard_scriptlet_to_ublock(r)
    ELSE IF conversion_function = "convert_adguard_redirect_to_ublock"
        THEN convert_adguard_redirect_to_ublock(r)
    ELSE IF conversion_function = "convert_ghostery_to_ublock"
        THEN convert_ghostery_to_ublock(r)
    ELSE IF conversion_function = "convert_ghostery_wildcard_to_ublock"
        THEN convert_ghostery_wildcard_to_ublock(r)
    ELSE IF conversion_function = "convert_clearurls_to_ublock_removeparam"
        THEN convert_clearurls_to_ublock_removeparam(r)
    ELSE IF conversion_function \in {"convert_hosts_to_ublock", "convert_pihole_to_ublock"}
        THEN convert_hosts_to_ublock(r)
    ELSE convert_default(r, ublock_pattern)

\* the rows of the table for a source whose pattern matches the rule
MatchingRows(r, source_name) ==
    {i \in 1..Len(ConversionTable) :
        /\ ConversionTable[i].source = source_name
        /\ PatternMatches(ConversionTable[i].pattern, r)}

\* convert_rule with the loop over the patterns keeping the last match
\* instead of returning at the first
db_convert_rule_last_match(r, source_name) ==
    IF source_name \notin Sources
    THEN [rule |-> None, status |-> "Source not found"]
    ELSE LET rows == MatchingRows(r, source_name)
         IN  IF rows = {}
             THEN [rule |-> r,
                   status |-> "No specific conversion rule found, assuming compatibility"]
             ELSE LET row == ConversionTable[Max(rows)]
                  IN  IF row.conversion_function # ""
                      THEN [rule |-> _apply_conversion(r, row.conversion_function,
                                                       row.pattern, row.ublock_pattern),
                            status |-> "Converted"]
                      ELSE [rule |-> r, status |-> "Direct compatibility"]

\* UBlockRuleConverter.convert_rule: [rule, status]
db_convert_rule(r, source_name) ==
    IF source_name \notin Sources
    THEN [rule |-> None, status |-> "Source not found"]
    ELSE LET rows == MatchingRows(r, source_name)
         IN  IF rows = {}
             THEN [rule |-> r,
                   status |-> "No specific conversion rule found, assuming compatibility"]
             ELSE LET row == ConversionTable[Min(rows)]
                  IN  IF row.conversion_function # ""
                      THEN [rule |-> _apply_conversion(r, row.conversion_function,
                                                       row.pattern, row.ublock_pattern),
                            status |-> "Converted"]
                      ELSE [rule |-> r, status |-> "Direct compatibility"]

(***************************************************************************)
(* RuleConverter.convert_rule and process_rules (src/rule_converter.py)    *)
(***************************************************************************)

\* the wrapper: an exception of the database converter becomes ("", error)
convert_rule(r, src_type) ==
    LET res == db_convert_rule(r, src_type)
    IN  IF res.rule = Raised
        THEN [rule |-> <<>>, status |-> "Conversion error"]
        ELSE res

\* Config.sections: the rule types of the configured sections
sections == <<
    [name |-> "Network", rule_types |-> <<1, 2, 12, 14, 15>>],
    [name |-> "Cosmetic", rule_types |-> <<3, 7, 8, 11>>],
    [name |-> "Exceptions", rule_types |-> <<4>>],
    [name |-> "Other", rule_types |-> <<5, 9>>] >>

SectionRuleTypes ==
    UNION {{sections[i].rule_types[k] : k \in 1..Len(sections[i].rule_types)} :
              i \in 1..Len(sections)}

\* `if not converted_rule`: None and "" are both skipped
IsFalsy(r) == r = None \/ r = <<>>

\* the body of the loop of process_rules for one rule of a source;
\* acc = [validated, processed]
ProcessRule(acc, raw, src_type) ==
    LET r == Strip(raw)
    IN  IF r = <<>> \/ r \in acc.processed THEN acc
        ELSE LET c == convert_rule(r, src_type).rule
             IN  IF IsFalsy(c) THEN acc
                 ELSE LET t == classify_rule(c)
                      IN  IF t # Unclassifiable /\ t \in SectionRuleTypes
                          THEN [validated |-> [acc.validated EXCEPT ![t] = Append(@, c)],
                                processed |-> acc.processed \cup {c}]
                          ELSE acc

RECURSIVE ProcessSource(_, _, _, _)
ProcessSource(acc, rs, src_type, i) ==
    IF i > Len(rs) THEN acc
    ELSE ProcessSource(ProcessRule(acc, rs[i], src_type), rs, src_type, i + 1)

RECURSIVE ProcessSources(_, _, _)
ProcessSources(acc, source_lists, i) ==
    IF i > Len(source_lists) THEN acc
    ELSE ProcessSources(
             ProcessSource(acc, source_lists[i].rules, source_lists[i].type, 1),
             source_lists, i + 1)

\* process_rules: source_lists is the dict in insertion order, each entry
\* [rules, type]
process_rules(source_lists) ==
    ProcessSources([validated |-> [t \in SectionRuleTypes |-> <<>>],
                    processed |-> {}], source_lists, 1).validated

(***************************************************************************)
(* Inputs of convert_rule: a dialect name and a rule, either a pattern of  *)
(* the table or up to MaxConvFrags pieces of host and network syntax.      *)
(***************************************************************************)
Dialects == Sources \cup {"EasyList", ""}

ConvFrags ==
    { <<"1", "2", "7", ".", "0", ".", "0", ".", "1">>, <<"0", ".", "0", ".", "0", ".",
            "0">>, <<" ">>, <<"\t">>, <<"a", "d", "s", ".", "e", "x", "a", "m", "p", "l",
            "e", ".", "c", "o", "m">>, <<"t", "r", "a", "c", "k", ".", "e", "x", "a", "m",
            "p", "l", "e", ".", "c", "o", "m">>,
      <<"e", "x", "a", "m", "p", "l", "e", ".", "c", "o", "m">>, <<"/", "t", "r", "a", "c",
              "k", "e", "r", ".", "j", "s">>, <<"*">>, <<"|", "|">>, <<"^">> }

TablePatterns == {ConversionTable[i].pattern : i \in 1..Len(ConversionTable)}

\* pieces of AdGuard CSS-injection rules
CssFrags ==
    { <<"e", "x", "a", "m", "p", "l", "e", ".", "c", "o", "m">>, <<"a", ".", "b">>, <<"#",
            "$", "#">>, <<"#", "$", "#", ".", "a", "d">>, <<"#", "$", "#", ".", "a", "d",
            "-", "c", "l", "a", "s", "s">>, <<".", "x">>, CSS_SUFFIX }

\* pieces of rules that come close to the patterns with "*"
GrammarFrags ==
    { <<"e", "x", "a", "m", "p", "l", "e", ".", "c", "o", "m">>, <<"e", "x", "a", "m", "p",
            "l", "e", "x", "c", "o", "m">>, <<"/">>, <<"/", "?", "u", "t", "m",
            "_">>, <<"/", "u", "t", "m", "_">>, <<"*">>, <<"x">>, <<"s", "o", "u", "r",
            "c", "e">> }

\* AdGuard scriptlet rules <domain>#%#//scriptlet("<name>", "<arg>")
ScriptletDomains == { <<"e", "x", "a", "m", "p", "l", "e", ".", "c", "o", "m">>, <<"a",
        ".", "b">> }

ScriptletNames ==
    { <<"a", "b", "o", "r", "t", "-", "o", "n", "-", "p", "r", "o", "p", "e", "r", "t",
            "y", "-", "r", "e", "a", "d">>, <<"a", "b", "o", "r", "t", "-", "o", "n", "-",
            "p", "r", "o", "p", "e", "r", "t", "y", "-", "w", "r", "i", "t", "e">>,
      <<"a", "b", "o", "r", "t", "-", "c", "u", "r", "r", "e", "n", "t", "-", "i", "n",
              "l", "i", "n", "e", "-", "s", "c", "r", "i", "p", "t">>, <<"s", "e", "t",
              "-", "c", "o", "n", "s", "t", "a", "n", "t">>, <<"j", "s", "o", "n", "-",
              "p", "r", "u", "n", "e">>, <<"l", "o", "g">> }

ScriptletArgs == { <<"a", "d", "B", "l", "o", "c", "k", "D", "e", "t", "e", "c", "t", "e",
        "d">>, <<"x">> }

ScriptletRule(d, n, a) ==
    d \o SCRIPTLET_OPEN \o n \o SCRIPTLET_SEP \o a \o SCRIPTLET_CLOSE

ScriptletRules ==
    {ScriptletRule(d, n, a) :
         d \in ScriptletDomains, n \in ScriptletNames, a \in ScriptletArgs}

ConvRules ==
    TablePatterns
        \cup {Flatten(fs) : fs \in SeqsUpTo(ConvFrags, MaxConvFrags)}
        \cup {Flatten(fs) : fs \in SeqsUpTo(CssFrags, MaxConvFrags)}
        \cup {Flatten(fs) : fs \in SeqsUpTo(GrammarFrags, MaxConvFrags)}
        \cup ScriptletRules

(***************************************************************************)
(* SpecConverter: a rule of a source is converted, or processed as the     *)
(* only rule of the only source.                                           *)
(***************************************************************************)
InitConverter ==
    /\ pc = "start"
    /\ rule \in ConvRules
    /\ source_type \in Dialects
    /\ converted = <<>>
    /\ status = ""
    /\ validated_rules = <<>>
    /\ rule_type = Unclassifiable
    /\ rules = <<>>
    /\ optimized = <<>>
    /\ reoptimized = <<>>
    /\ optimized_rules = {}
    /\ warning_count = 0
    /\ sources = <<>>
    /\ content = <<>>
    /\ future = <<>>
    /\ all_rules = <<>>
    /\ error_count = 0
    /\ output = <<>>
    /\ written = <<>>
    /\ result = FALSE
    /\ settings = <<>>
    /\ use_cache = FALSE
    /\ cache = <<>>
    /\ fetch = <<>>
    /\ fetched = <<>>

ConvertRule ==
    /\ pc = "start"
    /\ LET res == convert_rule(rule, source_type)
       IN  /\ converted' = res.rule
           /\ status' = res.status
    /\ pc' = "converted"
    /\ UNCHANGED genvars
    /\ UNCHANGED <<rules, optimized, reoptimized, optimized_rules, warning_count,
                   rule, source_type, rule_type, validated_rules>>
    /\ UNCHANGED fetchvars

ProcessRules ==
    /\ pc = "start"
    /\ validated_rules' = process_rules(<<[rules |-> <<rule>>, type |-> source_type]>>)
    /\ pc' = "processed"
    /\ UNCHANGED genvars
    /\ UNCHANGED <<rules, optimized, reoptimized, optimized_rules, warning_count,
                   rule, source_type, rule_type, converted, status>>
    /\ UNCHANGED fetchvars

NextConverter == ConvertRule \/ ProcessRules

SpecConverter == InitConverter /\ [][NextConverter]_vars

(***************************************************************************)
(* Claims about the converter.                                             *)
(***************************************************************************)

\* C9: conversion never rejects a rule: for every rule and every dialect,
\* also an unknown dialect or one without table entries, a rule that no
\* pattern matches comes back unchanged and so reaches classification.
C9_ConversionNeverRejects ==
    (rule # <<>> /\ MatchingRows(rule, source_type) = {}) =>
        /\ pc = "converted" => converted = rule
        /\ (/\ pc = "processed"
            /\ Strip(rule) = rule
            /\ classify_rule(rule) \in SectionRuleTypes)
           => rule \in Range(validated_rules[classify_rule(rule)])

\* the hostname of a hosts-format line: the text after the address and the
\* whitespace that follows it
HostnameOf(r) ==
    LET ip == IF StartsWith(r, <<"0", ".", "0", ".", "0", ".", "0">>) THEN <<"0", ".", "0",
            ".", "0", ".", "0">> ELSE <<"1", "2", "7", ".", "0", ".", "0", ".", "1">>
    IN  Drop(r, RunEnd(r, Whitespace, Len(ip) + 1))

\* C10: every hosts-format line <ip><whitespace><hostname> with ip 0.0.0.0
\* or 127.0.0.1 converts with dialect "Hosts File" (and with "Pi-hole" for
\* 0.0.0.0) to ||<hostname>^.
C10_HostsStrip ==
    (/\ pc = "converted"
     /\ IsHostsLine(rule)
     /\ HostnameOf(rule)[1] \in Lower
     /\ \/ source_type = "Hosts File"
        \/ source_type = "Pi-hole" /\ StartsWith(rule, <<"0", ".", "0", ".", "0", ".", "0">>))
    => converted = <<"|", "|">> \o HostnameOf(rule) \o <<"^">>

\* <domain>#$#<selector> { display: none !important; } with one "#$#" and
\* one declaration block, which ends the rule
IsCssHidingRule(r) ==
    LET k == Find(r, <<"#", "$", "#">>, 1)
        e == Len(r) - Len(CSS_SUFFIX) + 1
    IN  /\ k > 1
        /\ r[1] \in Lower
        /\ Find(r, <<"#">>, 1) = k
        /\ Find(r, <<"#", "$", "#">>, k + 1) = 0
        /\ e > k + 3
        /\ Find(r, CSS_SUFFIX, 1) = e

\* C11: every AdGuard rule <domain>#$#<selector> { display: none !important; }
\* converts with dialect "AdGuard" to <domain>##<selector>; in particular
\* example.com#$#.ad { display: none !important; } gives example.com##.ad.
C11_CssHidingConversion ==
    (pc = "converted" /\ source_type = "AdGuard" /\ IsCssHidingRule(rule))
    => LET k == Find(rule, <<"#", "$", "#">>, 1)
       IN  converted = SubSeq(rule, 1, k - 1) \o <<"#", "#">>
                           \o SubSeq(rule, k + 3, Len(rule) - Len(CSS_SUFFIX))

\* the uBlock Origin name of an AdGuard scriptlet
MappedScriptlet(n) ==
    CASE n = <<"a", "b", "o", "r", "t", "-", "o", "n", "-", "p", "r", "o", "p", "e", "r",
            "t", "y", "-", "r", "e", "a", "d">> -> <<"a", "o", "p", "r">>
      [] n = <<"a", "b", "o", "r", "t", "-", "o", "n", "-", "p", "r", "o", "p", "e", "r",
              "t", "y", "-", "w", "r", "i", "t", "e">> -> <<"a", "o", "p", "w">>
      [] n = <<"a", "b", "o", "r", "t", "-", "c", "u", "r", "r", "e", "n", "t", "-", "i",
              "n", "l", "i", "n", "e", "-", "s", "c", "r", "i", "p", "t">> -> <<"a", "c",
              "i", "s">>
      [] n = <<"s", "e", "t", "-", "c", "o", "n", "s", "t", "a", "n", "t">> -> <<"s", "e", "t">>
      [] n = <<"j", "s", "o", "n", "-", "p", "r", "u", "n", "e">> -> <<"j", "s", "o", "n",
              "-", "p", "r", "u", "n", "e">>
      [] OTHER -> n

\* C24: scriptlet conversion: every AdGuard rule
\* <domain>#%#//scriptlet("<name>", "<arg>") is converted to
\* <domain>##+js(<mapped>, <arg>), where <mapped> is aopr, aopw, acis, set
\* or json-prune for the five known names and the name itself otherwise.
C24_ScriptletConversion ==
    (pc = "converted" /\ source_type = "AdGuard")
    => \A d \in ScriptletDomains, n \in ScriptletNames, a \in ScriptletArgs :
           rule = ScriptletRule(d, n, a)
           => converted = d \o <<"#", "#", "+", "j", "s",
                   "(">> \o MappedScriptlet(n) \o <<",", " ">> \o a \o <<")">>

\* what the entry at row i of the table makes of a rule
ConvertedBy(i, r) ==
    LET row == ConversionTable[i]
    IN  IF row.conversion_function = "" THEN r
        ELSE _apply_conversion(r, row.conversion_function, row.pattern, row.ublock_pattern)

\* C12: first match wins: a rule that matches more than one pattern of its
\* dialect is converted by the matching entry that comes first in the table
\* and by no other; Ghostery example.com/tracker.js, which also matches
\* *example.com*, becomes ||example.com/tracker.js^.
C12_FirstMatchWins ==
    (/\ pc = "converted"
     /\ source_type \in Sources
     /\ Cardinality(MatchingRows(rule, source_type)) > 1)
    => /\ \A i \in MatchingRows(rule, source_type) :
              (\A j \in MatchingRows(rule, source_type) : i <= j)
                  => converted = ConvertedBy(i, rule)
       /\ (source_type = "Ghostery" /\ rule = <<"e", "x", "a", "m", "p", "l", "e", ".",
               "c", "o", "m", "/", "t", "r", "a", "c", "k", "e", "r", ".", "j", "s">>)
              => converted = <<"|", "|", "e", "x", "a", "m", "p", "l", "e", ".", "c", "o",
                      "m", "/", "t", "r", "a", "c", "k", "e", "r", ".", "j", "s", "^">>

C12_Witness ==
    /\ pc = "converted"
    /\ source_type = "Ghostery"
    /\ rule = <<"e", "x", "a", "m", "p", "l", "e", ".", "c", "o", "m", "/", "t", "r", "a",
            "c", "k", "e", "r", ".", "j", "s">>
    /\ Cardinality(MatchingRows(rule, source_type)) = 2
    /\ converted = <<"|", "|", "e", "x", "a", "m", "p", "l", "e", ".", "c", "o", "m", "/",
            "t", "r", "a", "c", "k", "e", "r", ".", "j", "s", "^">>
    /\ converted # ConvertedBy(Max(MatchingRows(rule, source_type)), rule)

\* C25: wildcard-domain conversion: every Ghostery rule that matches the
\* pattern *example.com* and not the earlier Ghostery pattern
\* example.com/tracker.js is converted to ||example.com^, a result without a
\* leading or trailing "*".
C25_WildcardDomainConversion ==
    (/\ pc = "converted"
     /\ source_type = "Ghostery"
     /\ PatternMatches(<<"*", "e", "x", "a", "m", "p", "l", "e", ".", "c", "o", "m",
             "*">>, rule)
     /\ ~PatternMatches(<<"e", "x", "a", "m", "p", "l", "e", ".", "c", "o", "m", "/", "t",
             "r", "a", "c", "k", "e", "r", ".", "j", "s">>, rule))
    => /\ converted = <<"|", "|", "e", "x", "a", "m", "p", "l", "e", ".", "c", "o", "m", "^">>
       /\ ~StartsWith(converted, <<"*">>)
       /\ ~EndsWith(converted, <<"*">>)

\* the pattern from index i with each "*" replaced by the run of runs[star]
\* characters that the rule has at that place (from index j of the rule)
RECURSIVE Substituted(_, _, _, _, _)
Substituted(pattern, runs, r, i, j) ==
    LET star == Find(pattern, <<"*">>, i)
    IN  IF star = 0 THEN SubSeq(pattern, i, Len(pattern))
        ELSE LET a == j + (star - i)
             IN  SubSeq(pattern, i, star - 1) \o SubSeq(r, a, a + runs[star] - 1)
                     \o Substituted(pattern, runs, r, star + 1, a + runs[star])

\* the number of characters the runs take together
RECURSIVE TotalRun(_, _)
TotalRun(runs, stars) ==
    IF stars = {} THEN 0
    ELSE LET s == CHOOSE s \in stars : TRUE
         IN  runs[s] + TotalRun(runs, stars \ {s})

\* the rule is the pattern with each "*" replaced by some run of characters
GrammarMatches(pattern, r) ==
    LET stars == {i \in 1..Len(pattern) : pattern[i] = "*"}
        spare == Len(r) - (Len(pattern) - Cardinality(stars))
    IN  IF stars = {} THEN pattern = r
        ELSE /\ spare >= 0
             /\ \E runs \in [stars -> 0..spare] :
                    /\ TotalRun(runs, stars) = spare
                    /\ Substituted(pattern, runs, r, 1, 1) = r

\* C13: pattern grammar: convert_rule finds a conversion entry for a rule
\* exactly when the whole rule is one of the dialect's patterns with each
\* "*" replaced by some (possibly empty) run of characters and every other
\* character kept; a pattern without "*" matches the identical text only.
C13_PatternGrammar ==
    (pc = "converted" /\ source_type \in Sources)
    => /\ (status \in {"Converted", "Direct compatibility", "Conversion error"})
              <=> \E i \in 1..Len(ConversionTable) :
                      /\ ConversionTable[i].source = source_type
                      /\ GrammarMatches(ConversionTable[i].pattern, rule)
       /\ \A i \in MatchingRows(rule, source_type) :
              Find(ConversionTable[i].pattern, <<"*">>, 1) = 0
                  => rule = ConversionTable[i].pattern

C13_Witness ==
    /\ pc = "converted"
    /\ source_type = "ClearURLs"
    /\ rule = <<"e", "x", "a", "m", "p", "l", "e", ".", "c", "o", "m", "/", "?", "u", "t",
            "m", "_", "s", "o", "u", "r", "c", "e">>
    /\ status = "Converted"
    /\ GrammarMatches(<<"e", "x", "a", "m", "p", "l", "e", ".", "c", "o", "m", "/", "?",
            "u", "t", "m", "_", "*">>, rule)
    /\ ~GrammarMatches(<<"e", "x", "a", "m", "p", "l", "e", ".", "c", "o", "m", "/", "?",
            "u", "t", "m", "_", "*">>, <<"e", "x", "a", "m", "p", "l", "e", ".", "c", "o",
            "m", "/", "u", "t", "m", "_", "s", "o", "u", "r", "c", "e">>)

\* the functions _apply_conversion implements by name
NamedTransforms ==
    {"convert_adguard_css_to_ublock", "convert_adguard_scriptlet_to_ublock",
     "convert_adguard_redirect_to_ublock", "convert_ghostery_to_ublock",
     "convert_ghostery_wildcard_to_ublock", "convert_clearurls_to_ublock_removeparam",
     "convert_hosts_to_ublock", "convert_pihole_to_ublock"}

\* the text a named transform looks for in a rule; the hosts transform
\* takes the address as optional and wraps whatever is left
ExpectedShape(conversion_function, r) ==
    IF conversion_function = "convert_adguard_css_to_ublock"
        THEN \E i \in 1..Len(r) : CssHidingAt(r, i) # 0
    ELSE IF conversion_function = "convert_adguard_scriptlet_to_ublock"
        THEN \E i \in 1..Len(r) : ScriptletAt(r, i).found
    ELSE IF conversion_function = "convert_adguard_redirect_to_ublock"
        THEN \/ Contains(r, <<"n", "o", "o", "p", "t", "e", "x", "t">>)
             \/ Contains(r, <<"n", "o", "o", "p", "j", "s">>)
             \/ Contains(r, <<"n", "o", "o", "p", "f", "r", "a", "m", "e">>)
    ELSE IF conversion_function = "convert_ghostery_to_ublock"
        THEN ~StartsWith(r, <<"|", "|">>)
    ELSE IF conversion_function = "convert_ghostery_wildcard_to_ublock"
        THEN Contains(r, <<"*", "e", "x", "a", "m", "p", "l", "e", ".", "c", "o", "m", "*">>)
    ELSE IF conversion_function = "convert_clearurls_to_ublock_removeparam"
        THEN Contains(r, <<"/", "?">>)
    ELSE TRUE

\* the function of the entry that converts a rule of a known dialect, ""
\* when no entry matches or the entry has none
TransformOf(r, source_name) ==
    IF MatchingRows(r, source_name) = {} THEN ""
    ELSE ConversionTable[Min(MatchingRows(r, source_name))].conversion_function

\* C14: transforms are total: every rule that reaches a named transform
\* comes back as a rule string, no transform raises, and a rule without the
\* shape the transform looks for comes back unchanged.
C14_TransformsTotal ==
    (/\ pc = "converted"
     /\ source_type \in Sources
     /\ TransformOf(rule, source_type) \in NamedTransforms)
    => /\ status = "Converted"
       /\ converted \notin {None, Raised, <<>>}
       /\ ~ExpectedShape(TransformOf(rule, source_type), rule) => converted = rule

C14_Witness ==
    /\ pc = "converted"
    /\ source_type = "Ghostery"
    /\ rule = <<"a", "d", "s", ".", "e", "x", "a", "m", "p", "l", "e", ".", "c", "o", "m",
            "/", "t", "r", "a", "c", "k", "e", "r", ".", "j", "s">>
    /\ TransformOf(rule, source_type) = "convert_ghostery_wildcard_to_ublock"
    /\ ~ExpectedShape("convert_ghostery_wildcard_to_ublock", rule)
    /\ status = "Converted"
    /\ converted = rule

(***************************************************************************)
(* The order the final sort would use: Python compares strings by the      *)
(* code points of their characters.                                        *)
(***************************************************************************)
\* the ASCII characters of rules in code-point order (without the grave accent)
Ascii ==
    <<"\t", " ", "!", "\"", "#", "$", "%", "&", "'", "(", ")", "*", "+", ",", "-", ".",
      "/", "0", "1", "2", "3", "4", "5", "6", "7", "8", "9", ":", ";", "<", "=", ">", "?",
      "@", "A", "B", "C", "D", "E", "F", "G", "H", "I", "J", "K", "L", "M", "N", "O", "P",
      "Q", "R", "S", "T", "U", "V", "W", "X", "Y", "Z", "[", "\\", "]", "^", "_", "a",
      "b", "c", "d", "e", "f", "g", "h", "i", "j", "k", "l", "m", "n", "o", "p", "q", "r",
      "s", "t", "u", "v", "w", "x", "y", "z", "{", "|", "}", "~">>

CodePoint(c) ==
    IF \E i \in 1..Len(Ascii) : Ascii[i] = c
    THEN CHOOSE i \in 1..Len(Ascii) : Ascii[i] = c
    ELSE Len(Ascii) + 1

\* a < b for two strings
LexLess(a, b) ==
    LET diffs == {i \in 1..Min({Len(a), Len(b)}) : a[i] # b[i]}
    IN  IF diffs = {} THEN Len(a) < Len(b)
        ELSE CodePoint(a[Min(diffs)]) < CodePoint(b[Min(diffs)])

\* the length of the text before the first "/"
LenBeforeSlash(r) ==
    IF Find(r, <<"/">>, 1) = 0 THEN Len(r) ELSE Find(r, <<"/">>, 1) - 1

\* C15: final ordering: the output of the optimizer is sorted ascending by
\* (length of the text before the first "/", full text in lexical order).
C15_FinalOrdering ==
    pc \in {"optimized", "reoptimized"}
    => \A i \in 1..(Len(optimized) - 1) :
           \/ LenBeforeSlash(optimized[i]) < LenBeforeSlash(optimized[i + 1])
           \/ /\ LenBeforeSlash(optimized[i]) = LenBeforeSlash(optimized[i + 1])
              /\ LexLess(optimized[i], optimized[i + 1])

(***************************************************************************)
(* ListGenerator.generate (src/src/list_generator.py): the sources are     *)
(* fetched by the threads of a pool, the main thread collects each fetch   *)
(* as it completes, then sorts, optimizes and writes.                      *)
(***************************************************************************)

\* the number of configured sources
MaxSources == 2

\* @ErrorHandler.retry_on_error(max_retries=3, delay=5) on _fetch_source
max_retries == 3

\* settings['parallel_downloads'], the size of the thread pool
parallel_downloads == 5

\* _fetch_source: the stripped lines of the response that are not blank and
\* do not start with "!" or "#"
RECURSIVE FetchedRules(_, _)
FetchedRules(lines, i) ==
    IF i > Len(lines) THEN <<>>
    ELSE (IF /\ Strip(lines[i]) # <<>>
             /\ ~StartsWith(lines[i], <<"!">>)
             /\ ~StartsWith(lines[i], <<"#">>)
          THEN <<Strip(lines[i])>>
          ELSE <<>>) \o FetchedRules(lines, i + 1)

\* generate, the loop over the rules of one fetched source;
\* acc = [all_rules, raised]: an exception of convert_rule leaves the loop
RECURSIVE ConvertSource(_, _, _, _)
ConvertSource(acc, rs, source, i) ==
    IF i > Len(rs) THEN acc
    ELSE LET c == db_convert_rule(rs[i], source.type).rule
         IN  IF c = Raised THEN [acc EXCEPT !.raised = TRUE]
             ELSE ConvertSource(
                      IF IsFalsy(c) THEN acc
                      ELSE [acc EXCEPT !.all_rules =
                                Append(@, [rule |-> c, priority |-> source.priority])],
                      rs, source, i + 1)

\* all_rules.sort(key=lambda x: x[1]): a stable sort by priority
RECURSIVE SortByPriority(_)
SortByPriority(pairs) ==
    IF pairs = <<>> THEN <<>>
    ELSE LET p == Min({pairs[i].priority : i \in 1..Len(pairs)})
         IN  SelectSeq(pairs, LAMBDA e : e.priority = p)
                 \o SortByPriority(SelectSeq(pairs, LAMBDA e : e.priority # p))

\* unique_rules = [rule for rule, _ in all_rules]
RulesOf(pairs) == [i \in 1..Len(pairs) |-> pairs[i].rule]

\* the futures that were submitted
Submitted == {i \in 1..Len(future) : future[i].state # "none"}

\* what each page of a source serves, with the dialect of the source
Pages ==
    { [type |-> "AdBlock Plus", lines |-> <<<<"|", "|", "b", ".", "c", "^">>, <<"|", "|",
            "a", ".", "b", "^">>>>],
      [type |-> "AdBlock Plus",
       lines |-> <<<<"|", "|", "a", ".", "b", "^">>, <<"|", "|", "a", ".",
               NonAscii, "^">>, <<"!", " ", "c">>, <<"|", "|", "c", ".", "d", "^",
               "^">>>>],
      [type |-> "Hosts File", lines |-> <<<<"1", "2", "7", ".", "0", ".", "0", ".", "1",
              " ", "a", "d", "s", ".", "e", "x", "a", "m", "p", "l", "e", ".", "c", "o",
              "m">>, <<"#", "#", ".", "x">>, <<" ", "|", "|", "b", ".", "c", "^",
              " ">>>>] }

Priorities == 1..2

InitGenerate ==
    /\ pc = "start"
    /\ \E pages \in [1..MaxSources -> Pages],
          priorities \in [1..MaxSources -> Priorities],
          enabled \in [1..MaxSources -> BOOLEAN] :
           /\ sources = [i \in 1..MaxSources |->
                            [type |-> pages[i].type, priority |-> priorities[i],
                             enabled |-> enabled[i]]]
           /\ content = [i \in 1..MaxSources |-> pages[i].lines]
    /\ future = [i \in 1..MaxSources |->
                    [state |-> "none", attempts |-> 0, yielded |-> FALSE]]
    /\ all_rules = <<>>
    /\ error_count \in 0..1
    /\ warning_count \in 0..1
    /\ output = <<>>
    /\ written = <<>>
    /\ result = FALSE
    /\ optimized_rules = {}
    /\ rules = <<>>
    /\ optimized = <<>>
    /\ reoptimized = <<>>
    /\ rule = <<>>
    /\ source_type = ""
    /\ rule_type = Unclassifiable
    /\ converted = <<>>
    /\ status = ""
    /\ validated_rules = <<>>
    /\ settings = <<>>
    /\ use_cache = FALSE
    /\ cache = <<>>
    /\ fetch = <<>>
    /\ fetched = <<>>

\* generate up to the end of the submit loop: the counters are reset and a
\* fetch is submitted for every enabled source
Submit ==
    /\ pc = "start"
    /\ error_count' = 0
    /\ warning_count' = 0
    /\ all_rules' = <<>>
    /\ future' = [i \in 1..Len(sources) |->
                     IF sources[i].enabled
                     THEN [future[i] EXCEPT !.state = "pending"]
                     ELSE future[i]]
    /\ pc' = "collecting"
    /\ UNCHANGED <<sources, content, output, written, result>>
    /\ UNCHANGED <<rules, optimized, reoptimized, optimized_rules, rule, source_type,
                   rule_type, converted, status, validated_rules>>
    /\ UNCHANGED fetchvars

\* a free thread of the pool takes a submitted fetch
StartFetch(i) ==
    /\ future[i].state = "pending"
    /\ Cardinality({j \in 1..Len(future) : future[j].state \in {"running", "sleeping"}})
           < parallel_downloads
    /\ future' = [future EXCEPT ![i].state = "running"]
    /\ UNCHANGED <<sources, content, all_rules, error_count, output, written, result>>
    /\ UNCHANGED <<pc, rules, optimized, reoptimized, optimized_rules, warning_count, rule,
                   source_type, rule_type, converted, status, validated_rules>>
    /\ UNCHANGED fetchvars

\* one call of _fetch_source inside the retry wrapper: the request succeeds
\* and the rules are returned, or it fails; the failure is retried after a
\* sleep, the last one is raised
FetchAttempt(i) ==
    /\ future[i].state = "running"
    /\ \E ok \in BOOLEAN :
           future' = [future EXCEPT ![i] =
               IF ok THEN [@ EXCEPT !.state = "returned", !.attempts = 0]
               ELSE IF @.attempts + 1 = max_retries
                    THEN [@ EXCEPT !.state = "raised", !.attempts = 0]
                    ELSE [@ EXCEPT !.state = "sleeping", !.attempts = @ + 1]]
    /\ UNCHANGED <<sources, content, all_rules, error_count, output, written, result>>
    /\ UNCHANGED <<pc, rules, optimized, reoptimized, optimized_rules, warning_count, rule,
                   source_type, rule_type, converted, status, validated_rules>>
    /\ UNCHANGED fetchvars

\* time.sleep(delay) of the retry wrapper returns
WakeUp(i) ==
    /\ future[i].state = "sleeping"
    /\ future' = [future EXCEPT ![i].state = "running"]
    /\ UNCHANGED <<sources, content, all_rules, error_count, output, written, result>>
    /\ UNCHANGED <<pc, rules, optimized, reoptimized, optimized_rules, warning_count, rule,
                   source_type, rule_type, converted, status, validated_rules>>
    /\ UNCHANGED fetchvars

\* a loop over as_completed without the inner try: the exception of a
\* failed fetch leaves the loop and ends generate
Collect_propagating(i) ==
    /\ pc = "collecting"
    /\ future[i].state \in {"returned", "raised"}
    /\ ~future[i].yielded
    /\ future' = [future EXCEPT ![i].yielded = TRUE]
    /\ IF future[i].state = "returned"
       THEN LET res == ConvertSource([all_rules |-> all_rules, raised |-> FALSE],
                                     FetchedRules(content[i], 1), sources[i], 1)
            IN  /\ all_rules' = res.all_rules
                /\ error_count' = error_count + (IF res.raised THEN 1 ELSE 0)
                /\ UNCHANGED <<pc, result>>
       ELSE /\ error_count' = error_count + 1
            /\ pc' = "done"
            /\ result' = FALSE
            /\ UNCHANGED all_rules
    /\ UNCHANGED <<sources, content, output, written>>
    /\ UNCHANGED <<rules, optimized, reoptimized, optimized_rules, warning_count, rule,
                   source_type, rule_type, converted, status, validated_rules>>
    /\ UNCHANGED fetchvars

\* one round of the loop over as_completed: a finished fetch is taken, its
\* rules are converted and collected, its exception is handled
Collect(i) ==
    /\ pc = "collecting"
    /\ future[i].state \in {"returned", "raised"}
    /\ ~future[i].yielded
    /\ future' = [future EXCEPT ![i].yielded = TRUE]
    /\ IF future[i].state = "returned"
       THEN LET res == ConvertSource([all_rules |-> all_rules, raised |-> FALSE],
                                     FetchedRules(content[i], 1), sources[i], 1)
            IN  /\ all_rules' = res.all_rules
                /\ error_count' = error_count + (IF res.raised THEN 1 ELSE 0)
       ELSE /\ error_count' = error_count + 1
            /\ UNCHANGED all_rules
    /\ UNCHANGED <<sources, content, output, written, result>>
    /\ UNCHANGED <<pc, rules, optimized, reoptimized, optimized_rules, warning_count, rule,
                   source_type, rule_type, converted, status, validated_rules>>
    /\ UNCHANGED fetchvars

\* str(n) of a natural number
DecimalDigits == <<"0", "1", "2", "3", "4", "5", "6", "7", "8", "9">>

RECURSIVE IntToStr(_)
IntToStr(n) ==
    IF n < 10 THEN <<DecimalDigits[n + 1]>>
    ELSE IntToStr(n \div 10) \o <<DecimalDigits[(n % 10) + 1]>>

\* '\n'.join(lines)
RECURSIVE JoinLines(_)
JoinLines(lines) ==
    IF lines = <<>> THEN <<>>
    ELSE IF Len(lines) = 1 THEN lines[1]
    ELSE lines[1] \o <<"\n">> \o JoinLines(Tail(lines))

\* config['metadata'] of a configuration
metadata ==
    [title |-> <<"T">>, description |-> <<"D">>, author |-> <<"A">>, homepage |-> <<"H">>,
     expires |-> <<"1", " ", "d", "a", "y">>]

\* datetime.utcnow().strftime('%Y-%m-%d:%H:%M') at the time of the run
update_time == <<"2", "0", "2", "6", "-", "0", "1", "-", "0", "1", ":", "0", "0", ":", "0",
        "0">>

\* a header that counts the lines written, the blank separator included
_generate_header_lines(rule_count) ==
    JoinLines(<< <<"!", " ", "T", "i", "t", "l", "e", ":", " ">> \o metadata.title,
                 <<"!", " ", "D", "e", "s", "c", "r", "i", "p", "t", "i", "o", "n", ":",
                         " ">> \o metadata.description,
                 <<"!", " ", "A", "u", "t", "h", "o", "r", ":", " ">> \o metadata.author,
                 <<"!", " ", "H", "o", "m", "e", "p", "a", "g", "e", ":",
                         " ">> \o metadata.homepage,
                 <<"!", " ", "L", "a", "s", "t", " ", "U", "p", "d", "a", "t", "e", "d",
                         ":", " ">> \o update_time,
                 <<"!", " ", "T", "o", "t", "a", "l", " ", "R", "u", "l", "e", "s", ":",
                         " ">> \o IntToStr(rule_count + 1),
                 <<"!", " ", "E", "x", "p", "i", "r", "e", "s", ":", " ">> \o metadata.expires,
                 <<"!">>,
                 <<"!", " ", "T", "h", "i", "s", " ", "l", "i", "s", "t", " ", "i", "s",
                         " ", "a", "u", "t", "o", "-", "g", "e", "n", "e", "r", "a", "t",
                         "e", "d", " ", "b", "y", " ", "u", "B", "l", "o", "c", "k", " ",
                         "U", "n", "i", "f", "i", "e", "d", " ", "L", "i", "s", "t", " ",
                         "G", "e", "n", "e", "r", "a", "t", "o", "r">>,
                 <<"!", " ", "G", "i", "t", "H", "u", "b", " ", "R", "e", "p", "o", "s",
                         "i", "t", "o", "r", "y", ":", " ">> \o metadata.homepage,
                 <<"!">>,
                 <<>> >>)

_generate_header(rule_count) ==
    JoinLines(<< <<"!", " ", "T", "i", "t", "l", "e", ":", " ">> \o metadata.title,
                 <<"!", " ", "D", "e", "s", "c", "r", "i", "p", "t", "i", "o", "n", ":",
                         " ">> \o metadata.description,
                 <<"!", " ", "A", "u", "t", "h", "o", "r", ":", " ">> \o metadata.author,
                 <<"!", " ", "H", "o", "m", "e", "p", "a", "g", "e", ":",
                         " ">> \o metadata.homepage,
                 <<"!", " ", "L", "a", "s", "t", " ", "U", "p", "d", "a", "t", "e", "d",
                         ":", " ">> \o update_time,
                 <<"!", " ", "T", "o", "t", "a", "l", " ", "R", "u", "l", "e", "s", ":",
                         " ">> \o IntToStr(rule_count),
                 <<"!", " ", "E", "x", "p", "i", "r", "e", "s", ":", " ">> \o metadata.expires,
                 <<"!">>,
                 <<"!", " ", "T", "h", "i", "s", " ", "l", "i", "s", "t", " ", "i", "s",
                         " ", "a", "u", "t", "o", "-", "g", "e", "n", "e", "r", "a", "t",
                         "e", "d", " ", "b", "y", " ", "u", "B", "l", "o", "c", "k", " ",
                         "U", "n", "i", "f", "i", "e", "d", " ", "L", "i", "s", "t", " ",
                         "G", "e", "n", "e", "r", "a", "t", "o", "r">>,
                 <<"!", " ", "G", "i", "t", "H", "u", "b", " ", "R", "e", "p", "o", "s",
                         "i", "t", "o", "r", "y", ":", " ">> \o metadata.homepage,
                 <<"!">>,
                 <<>> >>)

\* _write_list: the text written to the output file
_write_list(rs) == _generate_header(Len(rs)) \o JoinLines(rs)

\* a generate that goes on to sort, optimize and write as soon as one fetch
\* has been collected
Finish_early ==
    /\ pc = "collecting"
    /\ \E i \in Submitted : future[i].yielded
    /\ LET res == optimize_rules(RulesOf(SortByPriority(all_rules)))
       IN  /\ all_rules' = SortByPriority(all_rules)
           /\ output' = res.optimized
           /\ written' = _write_list(res.optimized)
           /\ optimized_rules' = res.seen
           /\ warning_count' = warning_count + res.warnings
    /\ result' = TRUE
    /\ pc' = "done"
    /\ UNCHANGED <<sources, content, future, error_count>>
    /\ UNCHANGED <<rules, optimized, reoptimized, rule, source_type, rule_type, converted,
                   status, validated_rules>>
    /\ UNCHANGED fetchvars

\* the rest of generate, once as_completed has yielded every future: sort
\* by priority, optimize, write the list and return True
Finish ==
    /\ pc = "collecting"
    /\ \A i \in Submitted : future[i].yielded
    /\ LET res == optimize_rules(RulesOf(SortByPriority(all_rules)))
       IN  /\ all_rules' = SortByPriority(all_rules)
           /\ output' = res.optimized
           /\ written' = _write_list(res.optimized)
           /\ optimized_rules' = res.seen
           /\ warning_count' = warning_count + res.warnings
    /\ result' = TRUE
    /\ pc' = "done"
    /\ UNCHANGED <<sources, content, future, error_count>>
    /\ UNCHANGED <<rules, optimized, reoptimized, rule, source_type, rule_type, converted,
                   status, validated_rules>>
    /\ UNCHANGED fetchvars

NextGenerate ==
    \/ Submit
    \/ \E i \in 1..Len(future) : StartFetch(i)
    \/ \E i \in 1..Len(future) : FetchAttempt(i)
    \/ \E i \in 1..Len(future) : WakeUp(i)
    \/ \E i \in 1..Len(future) : Collect(i)
    \/ Finish

SpecGenerate == InitGenerate /\ [][NextGenerate]_vars

(***************************************************************************)
(* Claims about generate.                                                  *)
(***************************************************************************)

\* the pairs generate collects when it takes the fetches that returned in
\* the order of the configuration, from source i on
RECURSIVE CollectedInOrder(_, _)
CollectedInOrder(acc, i) ==
    IF i > Len(sources) THEN acc
    ELSE CollectedInOrder(
             IF future[i].state = "returned"
             THEN ConvertSource([all_rules |-> acc, raised |-> FALSE],
                                FetchedRules(content[i], 1), sources[i], 1).all_rules
             ELSE acc,
             i + 1)

\* C16: the output order is independent of the fetch interleaving: for a
\* fixed configuration and fixed content of each source, the rules written
\* are those of the run that takes the fetches in configuration order,
\* whatever the order in which the fetches complete.
C16_OrderIndependence ==
    pc = "done"
    => output = optimize_rules(RulesOf(SortByPriority(CollectedInOrder(<<>>, 1)))).optimized

(***************************************************************************)
(* C18                                                                     *)
(***************************************************************************)

\* the submitted fetches that failed after all retries
FailedFetches == {i \in Submitted : future[i].state = "raised"}

\* the pairs generate collects from source i alone
ConvertedOf(i) ==
    ConvertSource([all_rules |-> <<>>, raised |-> FALSE],
                  FetchedRules(content[i], 1), sources[i], 1)

\* C18: source failures are isolated: when the fetch of a source has failed
\* after all retries, the run still completes and reports success, every
\* failure is recorded as one error, and every rule of each source whose
\* fetch succeeded is converted, optimized and written.
C18_SourceFailuresIsolated ==
    (pc = "done" /\ FailedFetches # {})
    => /\ result = TRUE
       /\ error_count = Cardinality(FailedFetches)
              + Cardinality({i \in Submitted : /\ future[i].state = "returned"
                                               /\ ConvertedOf(i).raised})
       /\ \A i \in Submitted :
              future[i].state = "returned"
              => \A k \in 1..Len(ConvertedOf(i).all_rules) :
                     LET o == _optimize_rule(ConvertedOf(i).all_rules[k].rule)
                     IN  o \notin {None, RuleError} => o \in Range(output)

\* one fetch failed, another returned rules, and these rules were written
C18_Witness ==
    /\ pc = "done"
    /\ result = TRUE
    /\ FailedFetches # {}
    /\ \E i \in Submitted : /\ future[i].state = "returned"
                            /\ ConvertedOf(i).all_rules # <<>>
    /\ output # <<>>

(***************************************************************************)
(* C19                                                                     *)
(***************************************************************************)

\* the submitted fetches that have neither returned nor failed yet
FetchesInFlight ==
    {i \in Submitted : future[i].state \notin {"returned", "raised"}}

\* C19: optimization starts only after fetching has ended: while a submitted
\* fetch has neither completed nor failed, no rule has reached the optimizer
\* and nothing has been written; the step that optimizes and writes is taken
\* only when no fetch is in flight.
C19_OptimizeAfterFetching ==
    /\ FetchesInFlight # {}
       => /\ pc = "collecting"
          /\ optimized_rules = {}
          /\ output = <<>>
          /\ ~result
    /\ pc = "done" => \A i \in Submitted : future[i].yielded

\* two fetches were submitted, both have ended, and the list was written
C19_Witness ==
    /\ pc = "done"
    /\ Cardinality(Submitted) >= 2
    /\ FetchesInFlight = {}
    /\ optimized_rules # {}
    /\ output # <<>>

(***************************************************************************)
(* C20                                                                     *)
(***************************************************************************)

\* a rule, neither comment nor blank line, with a character outside ASCII
Malformed(r) == ~IsComment(r) /\ ~IsEmpty(r) /\ IsInvalid(r)

WithoutMalformed(L) == SelectSeq(L, LAMBDA r : ~Malformed(r))

\* optimize_rules(L) gave out and counted warnings: one warning for each
\* malformed rule of L, and the result of the list without them
DegradesGracefully(L, out, warnings) ==
    /\ warnings = Cardinality({i \in 1..Len(L) : Malformed(L[i])})
    /\ out = optimize_rules(WithoutMalformed(L)).optimized
    /\ \A i \in 1..Len(out) : ~IsInvalid(out[i])

\* C20: malformed rules never abort the run: optimize_rules returns for
\* every input list, each malformed rule is dropped and counted as exactly
\* one warning, the other rules are processed as if the malformed ones were
\* absent, and generate reports success.
C20_MalformedRulesNeverAbort ==
    /\ pc = "optimized" => DegradesGracefully(rules, optimized, warning_count)
    /\ pc = "done" => /\ result = TRUE
                      /\ DegradesGracefully(RulesOf(all_rules), output, warning_count)

\* generate has ended with a malformed rule among those it optimized, ahead
\* of a rule that was written
C20_Witness ==
    /\ pc = "done"
    /\ result = TRUE
    /\ warning_count >= 1
    /\ \E i, j \in 1..Len(all_rules) :
           /\ i < j
           /\ Malformed(all_rules[i].rule)
           /\ _optimize_rule(all_rules[j].rule) \in Range(output)

(***************************************************************************)
(* C21                                                                     *)
(***************************************************************************)

\* some fetch was submitted and none of them gave a rule: each failed after
\* all retries or returned nothing
NoSourceYieldedRules ==
    /\ Submitted # {}
    /\ \A i \in Submitted : \/ future[i].state = "raised"
                            \/ /\ future[i].state = "returned"
                               /\ FetchedRules(content[i], 1) = <<>>

\* C21: zero fetched sources is fatal: when no enabled source has yielded
\* any rule, the run ends in failure, generate does not return True.
C21_ZeroSourcesFatal ==
    (pc = "done" /\ NoSourceYieldedRules) => result = FALSE

(***************************************************************************)
(* C22, C23: the written file                                              *)
(***************************************************************************)

\* text.split('\n') from index i on
RECURSIVE SplitLines(_, _)
SplitLines(text, i) ==
    LET j == Find(text, <<"\n">>, i)
    IN  IF j = 0 THEN <<SubSeq(text, i, Len(text))>>
        ELSE <<SubSeq(text, i, j - 1)>> \o SplitLines(text, j + 1)

\* int(s) of a string of decimal digits
RECURSIVE StrToInt(_)
StrToInt(s) ==
    IF s = <<>> THEN 0
    ELSE 10 * StrToInt(SubSeq(s, 1, Len(s) - 1))
             + (CHOOSE d \in 0..9 : DecimalDigits[d + 1] = s[Len(s)])

\* the lines of the header block, the closing "!" line included
HeaderLines == 11

FileLines == SplitLines(written, 1)

BodyLines == SubSeq(FileLines, HeaderLines + 1, Len(FileLines))

TOTAL_RULES == <<"!", " ", "T", "o", "t", "a", "l", " ", "R", "u", "l", "e", "s", ":", " ">>

\* the number in the header's "! Total Rules:" line
HeaderRuleCount ==
    LET k == CHOOSE k \in 1..HeaderLines : StartsWith(FileLines[k], TOTAL_RULES)
    IN  StrToInt(Drop(FileLines[k], Len(TOTAL_RULES)))

SectionTitle(name) ==
    CASE name = "Network" -> <<"N", "e", "t", "w", "o", "r", "k">>
      [] name = "Cosmetic" -> <<"C", "o", "s", "m", "e", "t", "i", "c">>
      [] name = "Exceptions" -> <<"E", "x", "c", "e", "p", "t", "i", "o", "n", "s">>
      [] name = "Other" -> <<"O", "t", "h", "e", "r">>

\* C22: sectioned body: after the header the written file has one block per
\* configured section, a "!" comment line naming the section followed by
\* its rules, and every rule stands in the block of the section whose
\* rule_types holds the rule's classification.
C22_SectionedBody ==
    (pc = "done" /\ output # <<>>)
    => LET body  == BodyLines
           heads == {k \in 1..Len(body) : IsComment(body[k])}
       IN  /\ Cardinality(heads) = Len(sections)
           /\ \A j \in 1..Len(sections) :
                  \E k \in heads :
                      /\ Cardinality({h \in heads : h <= k}) = j
                      /\ Contains(body[k], SectionTitle(sections[j].name))
           /\ \A k \in (1..Len(body)) \ heads :
                  body[k] # <<>>
                  => LET j == Cardinality({h \in heads : h < k})
                     IN  /\ j >= 1
                         /\ classify_rule(body[k]) \in Range(sections[j].rule_types)

\* the non-comment rule lines of the body
RuleLines == SelectSeq(BodyLines, LAMBDA l : l # <<>> /\ ~IsComment(l))

\* C23: the header rule count is exact: the number in the "! Total Rules:"
\* line of the header is the number of non-comment rule lines of the body,
\* and the lines of the body are the optimizer's output, in its order, one
\* rule per line.
C23_HeaderRuleCountExact ==
    pc = "done"
    => /\ HeaderRuleCount = Len(RuleLines)
       /\ RuleLines = output
       /\ BodyLines = IF output = <<>> THEN << <<>> >> ELSE output
       /\ output = optimize_rules(RulesOf(all_rules)).optimized

\* a list of at least two rules was written under a header that counts them
C23_Witness ==
    /\ pc = "done"
    /\ Len(output) >= 2
    /\ HeaderRuleCount = Len(output)
    /\ Len(BodyLines) = Len(output)

(***************************************************************************)
(* SourceFetcher.fetch_source (src/source_fetcher.py): one source is       *)
(* fetched with retries, behind a cache file.                              *)
(***************************************************************************)

\* the largest settings["max_retries"] of a configuration, and the largest
\* max_retries handed to retry_on_error
MaxRetries == 3

\* the stripped lines that are not blank
RECURSIVE StrippedLines(_, _)
StrippedLines(lines, i) ==
    IF i > Len(lines) THEN <<>>
    ELSE (IF Strip(lines[i]) # <<>> THEN <<Strip(lines[i])>> ELSE <<>>)
             \o StrippedLines(lines, i + 1)

\* _process_source_content with the default, empty exclude_patterns
_process_source_content(lines) == StrippedLines(lines, 1)

\* an _is_cache_valid that finds every cache file expired
_is_cache_valid_never(cache_file) == FALSE

\* _is_cache_valid: the file exists and is younger than cache_ttl
_is_cache_valid(cache_file) == cache_file.exists /\ cache_file.fresh

\* a _load_from_cache that never finds a rule in the file
_load_from_cache_empty(cache_file) == <<>>

\* _load_from_cache: the stripped lines of the file; a file that cannot be
\* read is reported and gives the empty list
_load_from_cache(cache_file) ==
    IF cache_file.readable THEN StrippedLines(cache_file.rules, 1) ELSE <<>>

\* _save_to_cache: the file as the rules were written to it
_save_to_cache(rs) ==
    [exists |-> TRUE, fresh |-> TRUE, readable |-> TRUE, rules |-> rs]

NoCacheFile ==
    [exists |-> FALSE, fresh |-> FALSE, readable |-> FALSE, rules |-> <<>>]

\* the rule lists a URL serves or a cache file holds
FetchPages ==
    { <<<<"|", "|", "b", ".", "c", "^">>, <<"|", "|", "a", ".", "b", "^">>>>, <<<<" ", "|",
            "|", "c", ".", "d", "^", " ">>, <<>>, <<"!", " ", "c">>>> }

InitFetcher ==
    /\ pc = "start"
    /\ settings \in [max_retries : 0..MaxRetries]
    /\ use_cache \in BOOLEAN
    /\ cache \in {NoCacheFile}
                   \cup [exists : {TRUE}, fresh : BOOLEAN, readable : BOOLEAN,
                         rules : {_process_source_content(p) : p \in FetchPages}]
    /\ content \in {<<p>> : p \in FetchPages}
    /\ fetch = [attempt |-> 0, outcomes |-> <<>>, sleeps |-> 0]
    /\ fetched = <<>>
    /\ sources = <<>>
    /\ future = <<>>
    /\ all_rules = <<>>
    /\ error_count = 0
    /\ warning_count = 0
    /\ output = <<>>
    /\ written = <<>>
    /\ result = FALSE
    /\ optimized_rules = {}
    /\ rules = <<>>
    /\ optimized = <<>>
    /\ reoptimized = <<>>
    /\ rule = <<>>
    /\ source_type = ""
    /\ rule_type = Unclassifiable
    /\ converted = <<>>
    /\ status = ""
    /\ validated_rules = <<>>

\* fetch_source up to the loop: a valid cache file is returned at once
FetchSourceStart ==
    /\ pc = "start"
    /\ IF use_cache /\ _is_cache_valid(cache)
       THEN /\ fetched' = _load_from_cache(cache)
            /\ pc' = "fetched"
            /\ UNCHANGED fetch
       ELSE IF settings.max_retries < 1
       THEN /\ fetched' = <<>>
            /\ pc' = "fetched"
            /\ UNCHANGED fetch
       ELSE /\ fetch' = [fetch EXCEPT !.attempt = 1]
            /\ pc' = "fetching"
            /\ UNCHANGED fetched
    /\ UNCHANGED <<settings, use_cache, cache>>
    /\ UNCHANGED genvars
    /\ UNCHANGED <<rules, optimized, reoptimized, optimized_rules, warning_count, rule,
                   source_type, rule_type, converted, status, validated_rules>>

\* one round of the loop: the request succeeds, the rules are cached and
\* returned; or it raises RequestException, and the last attempt falls back
\* to the cache file or to the empty list
FetchSourceAttempt ==
    /\ pc = "fetching"
    /\ \E ok \in BOOLEAN :
           /\ fetch' = [fetch EXCEPT !.outcomes = Append(@, ok)]
           /\ IF ok
              THEN /\ fetched' = _process_source_content(content[1])
                   /\ \E saved \in BOOLEAN :
                          cache' = IF use_cache /\ saved
                                   THEN _save_to_cache(_process_source_content(content[1]))
                                   ELSE cache
                   /\ pc' = "fetched"
              ELSE IF fetch.attempt = settings.max_retries
              THEN /\ fetched' = IF use_cache /\ cache.exists
                                 THEN _load_from_cache(cache)
                                 ELSE <<>>
                   /\ pc' = "fetched"
                   /\ UNCHANGED cache
              ELSE /\ pc' = "sleeping"
                   /\ UNCHANGED <<fetched, cache>>
    /\ UNCHANGED <<settings, use_cache>>
    /\ UNCHANGED genvars
    /\ UNCHANGED <<rules, optimized, reoptimized, optimized_rules, warning_count, rule,
                   source_type, rule_type, converted, status, validated_rules>>

\* time.sleep(retry_delay) returns and the loop goes to the next attempt
FetchSourceWake ==
    /\ pc = "sleeping"
    /\ fetch' = [fetch EXCEPT !.sleeps = @ + 1, !.attempt = @ + 1]
    /\ pc' = "fetching"
    /\ UNCHANGED <<settings, use_cache, cache, fetched>>
    /\ UNCHANGED genvars
    /\ UNCHANGED <<rules, optimized, reoptimized, optimized_rules, warning_count, rule,
                   source_type, rule_type, converted, status, validated_rules>>

NextFetcher == FetchSourceStart \/ FetchSourceAttempt \/ FetchSourceWake

SpecFetcher == InitFetcher /\ [][NextFetcher]_vars

(***************************************************************************)
(* C17                                                                     *)
(***************************************************************************)

\* every attempt fetch_source was allowed has been made and has failed
Exhausted ==
    /\ pc = "fetched"
    /\ Len(fetch.outcomes) >= 1
    /\ Len(fetch.outcomes) = settings.max_retries
    /\ \A k \in 1..Len(fetch.outcomes) : ~fetch.outcomes[k]

\* at most max_retries attempts, none after a success, one wait between two
\* attempts
RetryDiscipline ==
    /\ Len(fetch.outcomes) <= settings.max_retries
    /\ \A k \in 1..(Len(fetch.outcomes) - 1) : ~fetch.outcomes[k]
    /\ pc = "fetching" => fetch.sleeps = Len(fetch.outcomes)
    /\ pc = "sleeping" => fetch.sleeps = Len(fetch.outcomes) - 1
    /\ pc = "fetched" =>
           fetch.sleeps = IF Len(fetch.outcomes) = 0 THEN 0
                          ELSE Len(fetch.outcomes) - 1

\* C17 as stated: fetch_source makes at most max_retries attempts, stops at
\* the first success, waits once between two attempts, and when every attempt
\* has failed it returns the cached copy whenever a cache file exists, the
\* empty list otherwise.
C17_FallbackWheneverCached ==
    /\ RetryDiscipline
    /\ Exhausted => fetched = IF cache.exists THEN cache.rules ELSE <<>>

\* C17, amended: fetch_source makes at most max_retries attempts, stops at
\* the first success, waits once between two attempts, and when all its
\* max_retries (at least one) attempts have failed it returns the cached copy
\* if caching is enabled and a cache file exists and can be read, expired or
\* not, and the empty list otherwise.
C17_FetchRetryAndFallback ==
    /\ RetryDiscipline
    /\ Exhausted =>
           fetched = IF use_cache /\ cache.exists /\ cache.readable
                     THEN cache.rules ELSE <<>>

\* three attempts failed, two waits, and the expired cache file is returned
C17_Witness ==
    /\ Exhausted
    /\ Len(fetch.outcomes) = 3
    /\ fetch.sleeps = 2
    /\ use_cache /\ cache.exists /\ ~cache.fresh /\ cache.readable
    /\ fetched = cache.rules
    /\ fetched # <<>>

(***************************************************************************)
(* SpecProcess: RuleConverter.process_rules (src/rule_converter.py) on the *)
(* rule lists of several sources, as fetch_all_sources hands them over.    *)
(***************************************************************************)

\* the largest number of rules a source list holds
MaxListRules == 2

\* rules of DNS-level sources, some of which convert to the same rule
ProcessPool ==
    { <<"a", "d", "s", ".", "e", "x", "a", "m", "p", "l", "e", ".", "c", "o", "m">>, <<"0",
            ".", "0", ".", "0", ".", "0", " ", "a", "d", "s", ".", "e", "x", "a", "m", "p",
            "l", "e", ".", "c", "o", "m">>, <<" ", "a", "d", "s", ".", "e", "x", "a", "m",
            "p", "l", "e", ".", "c", "o", "m">>,
      <<"t", "r", "a", "c", "k", ".", "e", "x", "a", "m", "p", "l", "e", ".", "c", "o", "m">> }

ProcessDialects == {"Pi-hole", "Hosts File"}

InitProcess ==
    /\ pc = "start"
    /\ \E n \in 1..MaxSources :
           /\ sources \in [1..n -> [type : ProcessDialects, priority : {1},
                                    enabled : {TRUE}]]
           /\ content \in [1..n -> SeqsUpTo(ProcessPool, MaxListRules)]
    /\ validated_rules = <<>>
    /\ future = <<>>
    /\ all_rules = <<>>
    /\ error_count = 0
    /\ warning_count = 0
    /\ output = <<>>
    /\ written = <<>>
    /\ result = FALSE
    /\ optimized_rules = {}
    /\ rules = <<>>
    /\ optimized = <<>>
    /\ reoptimized = <<>>
    /\ rule = <<>>
    /\ source_type = ""
    /\ rule_type = Unclassifiable
    /\ converted = <<>>
    /\ status = ""
    /\ settings = <<>>
    /\ use_cache = FALSE
    /\ cache = <<>>
    /\ fetch = <<>>
    /\ fetched = <<>>

\* source_lists: the fetched rules of every source with its dialect
SourceLists == [i \in 1..Len(sources) |-> [rules |-> content[i], type |-> sources[i].type]]

ProcessSourceLists ==
    /\ pc = "start"
    /\ validated_rules' = process_rules(SourceLists)
    /\ pc' = "processed"
    /\ UNCHANGED genvars
    /\ UNCHANGED <<rules, optimized, reoptimized, optimized_rules, warning_count,
                   rule, source_type, rule_type, converted, status>>
    /\ UNCHANGED fetchvars

NextProcess == ProcessSourceLists

SpecProcess == InitProcess /\ [][NextProcess]_vars

\* C26: process_rules emits no duplicates: over all the lists it returns no
\* rule text occurs twice, also when two different rules of the sources
\* convert to the same rule.
C26_ProcessRulesNoDuplicates ==
    pc = "processed"
    => \A t1, t2 \in DOMAIN validated_rules :
           \A i \in 1..Len(validated_rules[t1]), j \in 1..Len(validated_rules[t2]) :
               validated_rules[t1][i] = validated_rules[t2][j] => (t1 = t2 /\ i = j)

(***************************************************************************)
(* SpecCache: SourceFetcher.fetch_source called again and again for the    *)
(* sources of a configuration that share one cache directory.  A call is   *)
(* one step; its retries are those of SpecFetcher.                         *)
(***************************************************************************)

\* the calls of fetch_source in a run, and the times the clock moves past
\* cache_ttl
MaxCalls == 3
MaxTicks == 1

Upper == {"A", "B", "C", "D", "E", "F", "G", "H", "I", "J", "K", "L", "M",
          "N", "O", "P", "Q", "R", "S", "T", "U", "V", "W", "X", "Y", "Z"}

\* c.isalnum() or c in ['-', '_']
IsSafeChar(c) == c \in Lower \cup Upper \cup Digits \cup {NonAscii, "-", "_"}

\* _get_cache_file_path: os.path.join(cache_dir, safe_name + ".txt")
_get_cache_file_path(source_name) ==
    <<"c", "a", "c", "h", "e", "/">>
        \o [k \in 1..Len(source_name) |->
               IF IsSafeChar(source_name[k]) THEN source_name[k] ELSE "_"]
        \o <<".", "t", "x", "t">>

\* names of sources
SourceNames ==
    { <<"E", "a", "s", "y", " ", "L", "i", "s", "t">>,
      <<"E", "a", "s", "y", "_", "L", "i", "s", "t">>,
      <<"E", "a", "s", "y", "L", "i", "s", "t">> }

CachePaths == {_get_cache_file_path(n) : n \in SourceNames}

\* what the URL of each source serves
ServedBy(i) == IF i = 1 THEN <<<<"|", "|", "b", ".", "c", "^">>, <<"|", "|", "a", ".", "b",
        "^">>>> ELSE <<<<" ", "|", "|", "c", ".", "d", "^", " ">>, <<>>, <<"!", " ",
        "c">>>>

InitCache ==
    /\ pc = "start"
    /\ \E n1, n2 \in SourceNames :
           /\ n1 # n2
           /\ sources = <<[name |-> n1], [name |-> n2]>>
    /\ content = [i \in 1..2 |-> ServedBy(i)]
    /\ settings \in [max_retries : {0, 3}, cache_ttl : {0, 86400}]
    /\ use_cache \in BOOLEAN
    /\ \E file \in {NoCacheFile}
                      \cup [exists : {TRUE}, fresh : BOOLEAN, readable : BOOLEAN,
                            rules : {_process_source_content(ServedBy(1))}] :
           cache = [p \in CachePaths |->
                       IF p = _get_cache_file_path(sources[1].name)
                          /\ (file.fresh => settings.cache_ttl > 0)
                       THEN file ELSE NoCacheFile]
    /\ fetch = [calls |-> <<>>, ticks |-> 0]
    /\ fetched = <<>>
    /\ validated_rules = <<>>
    /\ future = <<>>
    /\ all_rules = <<>>
    /\ error_count = 0
    /\ warning_count = 0
    /\ output = <<>>
    /\ written = <<>>
    /\ result = FALSE
    /\ optimized_rules = {}
    /\ rules = <<>>
    /\ optimized = <<>>
    /\ reoptimized = <<>>
    /\ rule = <<>>
    /\ source_type = ""
    /\ rule_type = Unclassifiable
    /\ converted = <<>>
    /\ status = ""

\* one call of fetch_source for source i: a valid cache file is returned at
\* once; otherwise the request is tried, its rules are cached and returned,
\* or after the last failed attempt the cache file, valid or not, is the
\* fallback
FetchSource(i) ==
    /\ Len(fetch.calls) < MaxCalls
    /\ LET cache_file == _get_cache_file_path(sources[i].name)
           file       == cache[cache_file]
           call       == [source |-> i, tick |-> fetch.ticks,
                          valid |-> _is_cache_valid(file), cached |-> file.rules,
                          readable |-> file.readable,
                          http |-> FALSE, ok |-> FALSE, read |-> FALSE,
                          wrote |-> FALSE, result |-> <<>>]
       IN  IF use_cache /\ _is_cache_valid(file)
           THEN /\ fetched' = _load_from_cache(file)
                /\ fetch' = [fetch EXCEPT !.calls = Append(@,
                                 [call EXCEPT !.read = TRUE,
                                              !.result = _load_from_cache(file)])]
                /\ UNCHANGED cache
           ELSE IF settings.max_retries < 1
           THEN /\ fetched' = <<>>
                /\ fetch' = [fetch EXCEPT !.calls = Append(@, call)]
                /\ UNCHANGED cache
           ELSE \E ok \in BOOLEAN, saved \in BOOLEAN :
                    LET rs == _process_source_content(content[i])
                    IN  IF ok
                        THEN /\ fetched' = rs
                             /\ cache' = IF use_cache /\ saved
                                         THEN [cache EXCEPT ![cache_file] =
                                                  [_save_to_cache(rs) EXCEPT
                                                      !.fresh = settings.cache_ttl > 0]]
                                         ELSE cache
                             /\ fetch' = [fetch EXCEPT !.calls = Append(@,
                                              [call EXCEPT !.http = TRUE, !.ok = TRUE,
                                                           !.wrote = use_cache /\ saved,
                                                           !.result = rs])]
                        ELSE /\ fetched' = IF use_cache /\ file.exists
                                           THEN _load_from_cache(file) ELSE <<>>
                             /\ fetch' = [fetch EXCEPT !.calls = Append(@,
                                              [call EXCEPT
                                                  !.http = TRUE,
                                                  !.read = use_cache /\ file.exists,
                                                  !.result = IF use_cache /\ file.exists
                                                             THEN _load_from_cache(file)
                                                             ELSE <<>>])]
                             /\ UNCHANGED cache
    /\ UNCHANGED <<settings, use_cache>>
    /\ UNCHANGED genvars
    /\ UNCHANGED <<pc, rules, optimized, reoptimized, optimized_rules, warning_count, rule,
                   source_type, rule_type, converted, status, validated_rules>>

\* time passes: every cache file is now older than cache_ttl
Expire ==
    /\ fetch.ticks < MaxTicks
    /\ fetch' = [fetch EXCEPT !.ticks = @ + 1]
    /\ cache' = [p \in CachePaths |-> [cache[p] EXCEPT !.fresh = FALSE]]
    /\ UNCHANGED <<settings, use_cache, fetched>>
    /\ UNCHANGED genvars
    /\ UNCHANGED <<pc, rules, optimized, reoptimized, optimized_rules, warning_count, rule,
                   source_type, rule_type, converted, status, validated_rules>>

NextCache == (\E i \in 1..Len(sources) : FetchSource(i)) \/ Expire

SpecCache == InitCache /\ [][NextCache]_vars

(***************************************************************************)
(* Claims about the cache.                                                 *)
(***************************************************************************)

\* C28: cache isolation between sources: two sources with different names
\* never have the same cache file, and no call of fetch_source returns rules
\* that were cached for another source: what it returns is empty or the
\* rules of its own source.
C28_CacheIsolation ==
    /\ \A k \in 1..Len(fetch.calls) :
           fetch.calls[k].result
               \in {<<>>, _process_source_content(content[fetch.calls[k].source])}
    /\ fetch.calls # <<>>
       => \A i, j \in 1..Len(sources) :
              sources[i].name # sources[j].name
              => _get_cache_file_path(sources[i].name)
                     # _get_cache_file_path(sources[j].name)

\* call k + 1 follows call k at once, for the same source
FollowsAtOnce(k) ==
    /\ k + 1 <= Len(fetch.calls)
    /\ fetch.calls[k + 1].source = fetch.calls[k].source
    /\ fetch.calls[k + 1].tick = fetch.calls[k].tick

\* a valid cache file keeps fetch_source from the network, and a disabled
\* cache is neither read nor written
CacheGates(call) ==
    /\ (use_cache /\ call.valid) => ~call.http
    /\ ~use_cache => (~call.read /\ ~call.wrote)

ReturnValues == {None, <<>>, <<<<"|", "|", "a", ".", "b", "^">>>>}

\* the exceptions an invocation raises
ExceptionClasses == {"SourceError", "ConfigError", "KeyboardInterrupt"}

\* retry_exceptions: the default (Exception,), which holds every exception
\* but KeyboardInterrupt, or (SourceError,)
RetryExceptions == {{"SourceError", "ConfigError"}, {"SourceError"}}

InitRetry ==
    /\ pc = "start"
    /\ \E n \in 0..MaxRetries, classes \in RetryExceptions :
           fetch = [max_retries |-> n, retry_exceptions |-> classes,
                    attempts |-> 0, calls |-> <<>>, sleeps |-> 0]
    /\ fetched = <<>>
    /\ settings = <<>>
    /\ use_cache = FALSE
    /\ cache = <<>>
    /\ sources = <<>>
    /\ content = <<>>
    /\ validated_rules = <<>>
    /\ future = <<>>
    /\ all_rules = <<>>
    /\ error_count = 0
    /\ warning_count = 0
    /\ output = <<>>
    /\ written = <<>>
    /\ result = FALSE
    /\ optimized_rules = {}
    /\ rules = <<>>
    /\ optimized = <<>>
    /\ reoptimized = <<>>
    /\ rule = <<>>
    /\ source_type = ""
    /\ rule_type = Unclassifiable
    /\ converted = <<>>
    /\ status = ""

\* wrapper up to the test of the while loop, which ends at once when
\* max_retries is not positive: the wrapper returns None
RetryStart ==
    /\ pc = "start"
    /\ IF fetch.attempts < fetch.max_retries
       THEN /\ pc' = "calling"
            /\ UNCHANGED fetched
       ELSE /\ pc' = "returned"
            /\ fetched' = [raised |-> FALSE, what |-> None]
    /\ UNCHANGED <<fetch, settings, use_cache, cache>>
    /\ UNCHANGED genvars
    /\ UNCHANGED <<rules, optimized, reoptimized, optimized_rules, warning_count, rule,
                   source_type, rule_type, converted, status, validated_rules>>

\* a loop that retries until the attempts are used up and never re-raises:
\* the last retryable exception is not an exception that ends the wrapper
Propagates_swallowed(e, attempts) == e \notin fetch.retry_exceptions

\* an exception that ends the wrapper: it is not in retry_exceptions, or it
\* is raised by the last attempt
Propagates(e, attempts) ==
    e \notin fetch.retry_exceptions \/ attempts + 1 = fetch.max_retries

\* one round of the loop: func returns and the wrapper returns its value, or
\* func raises; an exception of retry_exceptions is counted and re-raised
\* when it is the last attempt, any other exception is not caught
RetryInvoke ==
    /\ pc = "calling"
    /\ \/ \E v \in ReturnValues :
              /\ fetch' = [fetch EXCEPT !.calls = Append(@, [raised |-> FALSE, what |-> v])]
              /\ fetched' = [raised |-> FALSE, what |-> v]
              /\ pc' = "returned"
       \/ \E e \in ExceptionClasses :
              /\ fetch' = [fetch EXCEPT
                              !.calls = Append(@, [raised |-> TRUE, what |-> e]),
                              !.attempts = IF e \in fetch.retry_exceptions
                                           THEN @ + 1 ELSE @]
              /\ IF Propagates(e, fetch.attempts)
                 THEN /\ fetched' = [raised |-> TRUE, what |-> e]
                      /\ pc' = "raised"
                 ELSE /\ pc' = "sleeping"
                      /\ UNCHANGED fetched
    /\ UNCHANGED <<settings, use_cache, cache>>
    /\ UNCHANGED genvars
    /\ UNCHANGED <<rules, optimized, reoptimized, optimized_rules, warning_count, rule,
                   source_type, rule_type, converted, status, validated_rules>>

\* time.sleep(delay) returns and the loop tests attempts < max_retries
RetryWake ==
    /\ pc = "sleeping"
    /\ fetch' = [fetch EXCEPT !.sleeps = @ + 1]
    /\ pc' = "calling"
    /\ UNCHANGED <<settings, use_cache, cache, fetched>>
    /\ UNCHANGED genvars
    /\ UNCHANGED <<rules, optimized, reoptimized, optimized_rules, warning_count, rule,
                   source_type, rule_type, converted, status, validated_rules>>

NextRetry == RetryStart \/ RetryInvoke \/ RetryWake

SpecRetry == InitRetry /\ [][NextRetry]_vars

\* the invocation raised an exception of retry_exceptions
Retryable(call) == call.raised /\ call.what \in fetch.retry_exceptions

====
